---- MODULE Spec2Model ----
(***************************************************************************)
(* Model of the quick-music-notation capture core: the FragmentManager    *)
(* (working fragment, bounded linear undo history, committed list), the   *)
(* ShortcutEngine (modal key interpreter) and the NotationCapture         *)
(* orchestrator (mode machine, commit flow, chord timer).                  *)
(*                                                                         *)
(* Representation notes.                                                   *)
(*  - A pitch string is a sequence of one-character strings, so that the   *)
(*    regular expression of isValidPitch and formatPitch are computed.     *)
(*  - A duration is [duration, dots, object]: object is FALSE for the bare *)
(*    string form (dots is then 0) and TRUE for a DottedDuration object.   *)
(*  - Beat arithmetic is exact in the source for the durations used here   *)
(*    (dyadic rationals); it is done in units of 1/DurationUnit.           *)
(*  - metadata.totalDuration "m" is <<m>>, "m.r/n" is <<m, r, n>> with r   *)
(*    in 1/DurationUnit beats.                                             *)
(*  - Fragment id and timestamps (wall-clock values) are not modelled.     *)
(*  - historyIndex is 0-based as in the source; history[historyIndex + 1]  *)
(*    is the entry under the cursor.                                       *)
(***************************************************************************)
EXTENDS Integers, Sequences, FiniteSets, TLC

VARIABLES
  fm,              \* FragmentManager fields
  eng,             \* ShortcutEngine fields
  keyMappings,     \* the key mappings held by the ShortcutEngine
  mode,            \* NotationCapture.mode
  keyboardHandler, \* TRUE iff the keydown listener is attached to the document
  chordModeTimer,  \* NotationCapture.chordModeTimer: a timer handle, 0 = null
  timers,          \* pending chord setTimeout callbacks: records [id, due]
  lastTimerId,     \* the handle returned by the latest setTimeout
  now,             \* wall clock (Date.now()), in ticks
  onFragmentCommit,\* TRUE iff a commit sink was injected
  pr,              \* PreviewRenderer fields
  renderTimers,    \* pending debounced render callbacks: records [id, fragment]
  rendererInit,    \* initializeRenderer(): "loading", "done" or "failed"
  cm,              \* ConfigurationManager fields: config, customKeyMappings
  ee,              \* EventEmitter.listeners: event type -> listeners in insertion order
  pendingSinks,    \* indices in committedFragments of the fragments whose sink call has not settled
  effects,         \* notifications emitted and collaborator calls made by the last handler, in order
  ret,             \* the last call: its name, its return value, and the name of the call before it
  calls            \* number of external calls and events handled so far

vars == <<fm, eng, keyMappings, mode, keyboardHandler, chordModeTimer, timers,
          lastTimerId, now, onFragmentCommit, pr, renderTimers, rendererInit,
          cm, ee, pendingSinks, effects, ret, calls>>

(***************************************************************************)
(* Bounds                                                                  *)
(***************************************************************************)
MaxHistorySize == 3   \* the constructor argument maxHistorySize ranges over 1..MaxHistorySize
MaxCalls       == 4   \* FragmentManager methods called in one run
MaxEvents      == 5   \* orchestrator calls and events (keys, timers, ticks, sink results) in one run
MaxKeyCalls    == 5   \* ShortcutEngine methods called in one run
MaxEmitterCalls == 4  \* EventEmitter methods called in one run
MaxConfigCalls == 2   \* ConfigurationManager methods called in one run

(***************************************************************************)
(* Musical values (types/musical.ts, utils/musical-helpers.ts,             *)
(* utils/validation.ts)                                                    *)
(***************************************************************************)
DurationUnit == 128

DigitChars == <<"0", "1", "2", "3", "4", "5", "6", "7", "8", "9">>

NoteNames == {"C", "D", "E", "F", "G", "A", "B"}

\* parseInt of one decimal digit character
parseInt(ch) == CHOOSE n \in 0..9 : DigitChars[n + 1] = ch

isValidNoteName(name) == name \in NoteNames

isValidOctave(octave) == octave >= 0 /\ octave <= 8

isValidDuration(duration) ==
  duration \in {"whole", "half", "quarter", "eighth", "sixteenth",
                "thirty-second", "sixty-fourth"}

IsDigitChar(ch) == \E n \in 1..10 : DigitChars[n] = ch

\* pitch.match(/^([A-G])([#b]?)(\d)$/)
PitchRegexMatches(pitch) ==
  /\ Len(pitch) \in {2, 3}
  /\ pitch[1] \in {"A", "B", "C", "D", "E", "F", "G"}
  /\ Len(pitch) = 3 => pitch[2] \in {"#", "b"}
  /\ IsDigitChar(pitch[Len(pitch)])

isValidPitch(pitch) ==
  IF ~PitchRegexMatches(pitch) THEN FALSE
  ELSE isValidNoteName(pitch[1]) /\ isValidOctave(parseInt(pitch[Len(pitch)]))

formatPitch(note, accidental, octave) ==
  LET accidentalStr == IF accidental = "sharp" THEN <<"#">>
                       ELSE IF accidental = "flat" THEN <<"b">> ELSE <<>>
  IN <<note>> \o accidentalStr \o <<DigitChars[octave + 1]>>

\* typeof duration === 'object'
IsDotted(duration) == duration.object

Plain(d) == [duration |-> d, dots |-> 0, object |-> FALSE]

Dotted(d, n) == [duration |-> d, dots |-> n, object |-> TRUE]

BaseOf(duration) == duration.duration

DotsOf(duration) == IF IsDotted(duration) THEN duration.dots ELSE 0

baseValues(d) ==
  CASE d = "whole"         -> DurationUnit
    [] d = "half"          -> DurationUnit \div 2
    [] d = "quarter"       -> DurationUnit \div 4
    [] d = "eighth"        -> DurationUnit \div 8
    [] d = "sixteenth"     -> DurationUnit \div 16
    [] d = "thirty-second" -> DurationUnit \div 32
    [] d = "sixty-fourth"  -> DurationUnit \div 64

RECURSIVE DotLoop(_, _, _)
\* for (i = 0; i < dots; i++) { dotValue /= 2; value += dotValue }
DotLoop(value, dotValue, dots) ==
  IF dots <= 0 THEN value
  ELSE DotLoop(value + (dotValue \div 2), dotValue \div 2, dots - 1)

getDurationValue(duration) ==
  DotLoop(baseValues(BaseOf(duration)), baseValues(BaseOf(duration)), DotsOf(duration))

RECURSIVE SumBeats(_, _)
SumBeats(elements, denominator) ==
  IF elements = <<>> THEN 0
  ELSE LET element == Head(elements)
       IN (IF element.type \in {"note", "rest", "chord"}
           THEN getDurationValue(element.duration) * denominator
           ELSE 0) + SumBeats(Tail(elements), denominator)

calculateFragmentDuration(elements, timeSignature) ==
  LET totalBeats     == SumBeats(elements, timeSignature.denominator)
      measures       == totalBeats \div (DurationUnit * timeSignature.numerator)
      remainingBeats == totalBeats % (DurationUnit * timeSignature.numerator)
  IN IF remainingBeats = 0 THEN <<measures>>
     ELSE <<measures, remainingBeats, timeSignature.numerator>>

countMeasures(elements) ==
  Cardinality({i \in 1..Len(elements) : elements[i].type = "barline"})

createEmptyFragment(timeSignature, keySignature, tempo) ==
  [timeSignature |-> timeSignature,
   keySignature  |-> keySignature,
   tempo         |-> tempo,
   elements      |-> <<>>,
   metadata      |-> [measures |-> 0, totalDuration |-> <<0>>]]

validateNote(note) ==
  (IF ~isValidPitch(note.pitch) THEN <<"Invalid pitch">> ELSE <<>>)
  \o (IF ~isValidDuration(BaseOf(note.duration)) THEN <<"Invalid duration">> ELSE <<>>)
  \o (IF IsDotted(note.duration) /\ note.duration.dots < 0
      THEN <<"Dots cannot be negative">> ELSE <<>>)

validateChord(chord) ==
  (IF Len(chord.pitches) = 0 THEN <<"Chord must have at least one pitch">> ELSE <<>>)
  \o (IF \E i \in 1..Len(chord.pitches) : ~isValidPitch(chord.pitches[i])
      THEN <<"Invalid pitch in chord">> ELSE <<>>)
  \o (IF ~isValidDuration(BaseOf(chord.duration)) THEN <<"Invalid duration">> ELSE <<>>)

validateTimeSignature(ts) ==
  (IF ts.numerator < 1
   THEN <<"Time signature numerator must be a positive integer">> ELSE <<>>)
  \o (IF ts.denominator \notin {1, 2, 4, 8, 16, 32, 64}
      THEN <<"Time signature denominator must be one of">> ELSE <<>>)

validateMusicalElement(element) ==
  CASE element.type = "note"          -> validateNote(element)
    [] element.type = "chord"         -> validateChord(element)
    [] element.type = "timeSignature" -> validateTimeSignature(element)
    [] element.type \in {"rest", "barline", "keySignature", "tempo"} -> <<>>
    [] OTHER                          -> <<"Unknown element type">>

\* a placement rule that looks for notes only
canAddElementToFragment_NotesOnly(element, currentElements) ==
  IF /\ element.type \in {"timeSignature", "keySignature"}
     /\ \E i \in 1..Len(currentElements) : currentElements[i].type = "note"
  THEN [valid |-> FALSE, reason |-> "Time and key signatures should be placed before notes"]
  ELSE [valid |-> TRUE]

canAddElementToFragment(element, currentElements) ==
  IF /\ element.type \in {"timeSignature", "keySignature"}
     /\ \E i \in 1..Len(currentElements) : currentElements[i].type \in {"note", "rest"}
  THEN [valid |-> FALSE, reason |-> "Time and key signatures should be placed before notes"]
  ELSE [valid |-> TRUE]

(***************************************************************************)
(* FragmentManager (core/FragmentManager.ts).  Each method is an operator  *)
(* from the manager's fields to [fm |-> the fields after, value |-> the    *)
(* return value].                                                          *)
(***************************************************************************)
\* a null return value
Null == [type |-> "null"]

updateMetadata(f) ==
  [f EXCEPT !.currentFragment.metadata =
     [measures      |-> countMeasures(f.currentFragment.elements),
      totalDuration |-> calculateFragmentDuration(f.currentFragment.elements,
                                                  f.currentFragment.timeSignature)]]

\* saveToHistory without the truncation of the entries after the cursor
saveToHistory_KeepsFuture(f, action) ==
  LET entry  == [fragment |-> f.currentFragment, action |-> action]
      pushed == Append(f.history, entry)
      index  == f.historyIndex + 1
  IN IF Len(pushed) > f.maxHistorySize
     THEN [f EXCEPT !.history = Tail(pushed), !.historyIndex = index - 1]
     ELSE [f EXCEPT !.history = pushed, !.historyIndex = index]

\* saveToHistory that evicts the oldest entry without moving the cursor
saveToHistory_CursorNotShifted(f, action) ==
  LET truncated == IF f.historyIndex < Len(f.history) - 1
                   THEN SubSeq(f.history, 1, f.historyIndex + 1)
                   ELSE f.history
      entry     == [fragment |-> f.currentFragment, action |-> action]
      pushed    == Append(truncated, entry)
      index     == f.historyIndex + 1
  IN IF Len(pushed) > f.maxHistorySize
     THEN [f EXCEPT !.history = Tail(pushed), !.historyIndex = index]
     ELSE [f EXCEPT !.history = pushed, !.historyIndex = index]

saveToHistory(f, action) ==
  LET truncated == IF f.historyIndex < Len(f.history) - 1
                   THEN SubSeq(f.history, 1, f.historyIndex + 1)
                   ELSE f.history
      entry     == [fragment |-> f.currentFragment, action |-> action]
      pushed    == Append(truncated, entry)
      index     == f.historyIndex + 1
  IN IF Len(pushed) > f.maxHistorySize
     THEN [f EXCEPT !.history = Tail(pushed), !.historyIndex = index - 1]
     ELSE [f EXCEPT !.history = pushed, !.historyIndex = index]

FragmentManager(maxHistorySize, initialTimeSignature, initialKeySignature, initialTempo) ==
  saveToHistory(
    [currentFragment    |-> createEmptyFragment(initialTimeSignature,
                                                initialKeySignature, initialTempo),
     history            |-> <<>>,
     historyIndex       |-> -1,
     maxHistorySize     |-> maxHistorySize,
     committedFragments |-> <<>>],
    "clear")

\* addElement that appends and snapshots before it checks the placement rule
addElement_ChecksPlacementLate(f, element) ==
  LET validationErrors == validateMusicalElement(element)
      canAdd == canAddElementToFragment(element, f.currentFragment.elements)
      added  == saveToHistory(
                  updateMetadata(
                    [f EXCEPT !.currentFragment.elements = Append(@, element)]),
                  "add")
  IN IF Len(validationErrors) > 0
     THEN [fm |-> f, value |-> [success |-> FALSE, error |-> validationErrors]]
     ELSE IF ~canAdd.valid
     THEN [fm |-> added, value |-> [success |-> FALSE, error |-> <<canAdd.reason>>]]
     ELSE [fm |-> added, value |-> [success |-> TRUE]]

addElement(f, element) ==
  LET validationErrors == validateMusicalElement(element)
      canAdd == canAddElementToFragment(element, f.currentFragment.elements)
  IN IF Len(validationErrors) > 0
     THEN [fm |-> f, value |-> [success |-> FALSE, error |-> validationErrors]]
     ELSE IF ~canAdd.valid
     THEN [fm |-> f, value |-> [success |-> FALSE, error |-> <<canAdd.reason>>]]
     ELSE [fm |-> saveToHistory(
                    updateMetadata(
                      [f EXCEPT !.currentFragment.elements = Append(@, element)]),
                    "add"),
           value |-> [success |-> TRUE]]

deleteLastElement(f) ==
  LET elements == f.currentFragment.elements
  IN IF Len(elements) = 0
     THEN [fm |-> f, value |-> Null]
     ELSE [fm |-> saveToHistory(
                    updateMetadata(
                      [f EXCEPT !.currentFragment.elements =
                                   SubSeq(elements, 1, Len(elements) - 1)]),
                    "delete"),
           value |-> elements[Len(elements)]]

deleteElementAt(f, index) ==
  LET elements == f.currentFragment.elements
  IN IF index < 0 \/ index >= Len(elements)
     THEN [fm |-> f, value |-> Null]
     ELSE [fm |-> saveToHistory(
                    updateMetadata(
                      [f EXCEPT !.currentFragment.elements =
                                   SubSeq(elements, 1, index)
                                   \o SubSeq(elements, index + 2, Len(elements))]),
                    "delete"),
           value |-> elements[index + 1]]

clear(f) ==
  [fm |-> saveToHistory(
            [f EXCEPT !.currentFragment =
               createEmptyFragment(f.currentFragment.timeSignature,
                                   f.currentFragment.keySignature,
                                   f.currentFragment.tempo)],
            "clear"),
   value |-> "void"]

\* undo() whose boundary test lets the cursor step below the first entry
undo_StepsBelowFirst(f) ==
  IF f.historyIndex < 0
  THEN [fm |-> f, value |-> FALSE]
  ELSE [fm |-> [f EXCEPT !.historyIndex = f.historyIndex - 1,
                         !.currentFragment =
                            IF f.historyIndex = 0 THEN f.currentFragment
                            ELSE f.history[f.historyIndex].fragment],
        value |-> TRUE]

undo(f) ==
  IF f.historyIndex <= 0
  THEN [fm |-> f, value |-> FALSE]
  ELSE [fm |-> [f EXCEPT !.historyIndex = f.historyIndex - 1,
                         !.currentFragment = f.history[f.historyIndex].fragment],
        value |-> TRUE]

redo(f) ==
  IF f.historyIndex >= Len(f.history) - 1
  THEN [fm |-> f, value |-> FALSE]
  ELSE [fm |-> [f EXCEPT !.historyIndex = f.historyIndex + 1,
                         !.currentFragment = f.history[f.historyIndex + 2].fragment],
        value |-> TRUE]

canUndo(f) == f.historyIndex > 0

canRedo(f) == f.historyIndex < Len(f.history) - 1

\* commit that keeps the undo history of the committed fragment
commit_KeepsHistory(f) ==
  LET committed == f.currentFragment
  IN [fm |-> saveToHistory(
               [f EXCEPT !.committedFragments = Append(@, committed),
                         !.currentFragment =
                            createEmptyFragment(f.currentFragment.timeSignature,
                                                f.currentFragment.keySignature,
                                                f.currentFragment.tempo)],
               "clear"),
      value |-> committed]

commit(f) ==
  LET committed == f.currentFragment
  IN [fm |-> saveToHistory(
               [f EXCEPT !.committedFragments = Append(@, committed),
                         !.currentFragment =
                            createEmptyFragment(f.currentFragment.timeSignature,
                                                f.currentFragment.keySignature,
                                                f.currentFragment.tempo),
                         !.history = <<>>,
                         !.historyIndex = -1],
               "clear"),
      value |-> committed]

setTimeSignature_KeepsMetadata(f, numerator, denominator) ==
  [fm |-> saveToHistory(
            [f EXCEPT !.currentFragment.timeSignature =
                        [numerator |-> numerator, denominator |-> denominator]],
            "modify"),
   value |-> "void"]

setTimeSignature(f, numerator, denominator) ==
  [fm |-> saveToHistory(
            updateMetadata(
              [f EXCEPT !.currentFragment.timeSignature =
                          [numerator |-> numerator, denominator |-> denominator]]),
            "modify"),
   value |-> "void"]

setKeySignature(f, key, keyMode) ==
  [fm |-> saveToHistory(
            [f EXCEPT !.currentFragment.keySignature = [key |-> key, mode |-> keyMode]],
            "modify"),
   value |-> "void"]

\* setTempo on a manager whose current history entry is the working fragment
\* object itself
setTempo_SnapshotIsWorkingFragment(f, bpm) ==
  [fm |-> saveToHistory(
            [f EXCEPT !.currentFragment.tempo = bpm,
                      !.history[f.historyIndex + 1].fragment.tempo = bpm],
            "modify"),
   value |-> "void"]

setTempo(f, bpm) ==
  [fm |-> saveToHistory([f EXCEPT !.currentFragment.tempo = bpm], "modify"),
   value |-> "void"]

\* the copies made by the accessors are copies of arrays and of the fragment
\* object; the element objects in them are the canonical ones (see WriteThrough)
getCurrentFragment(f) == f.currentFragment

getCommittedFragments(f) == f.committedFragments

getLastElement(f) ==
  LET elements == f.currentFragment.elements
  IN IF Len(elements) > 0 THEN elements[Len(elements)] ELSE Null

getElementAt(f, index) ==
  LET elements == f.currentFragment.elements
  IN IF index >= 0 /\ index < Len(elements) THEN elements[index + 1] ELSE Null

isEmpty(f) == Len(f.currentFragment.elements) = 0

getElementCount(f) == Len(f.currentFragment.elements)

(***************************************************************************)
(* Inputs                                                                  *)
(***************************************************************************)
NoteC4     == [type |-> "note", pitch |-> <<"C", "4">>, duration |-> Plain("quarter")]
RestHalf   == [type |-> "rest", duration |-> Dotted("half", 1)]
BarlineEl  == [type |-> "barline", style |-> "single"]
TimeSigEl  == [type |-> "timeSignature", numerator |-> 3, denominator |-> 4]

\* elements that addElement rejects in every fragment
BadElements ==
  { [type |-> "note", pitch |-> <<"X", "9">>, duration |-> Plain("quarter")],
    [type |-> "note", pitch |-> <<"C", "9">>, duration |-> Plain("quarter")],
    [type |-> "note", pitch |-> <<"C", "4">>, duration |-> Plain("breve")],
    [type |-> "note", pitch |-> <<"C", "4">>,
     duration |-> Dotted("quarter", -1)],
    [type |-> "chord", pitches |-> <<>>, duration |-> Plain("quarter")],
    [type |-> "timeSignature", numerator |-> 4, denominator |-> 3],
    [type |-> "lyric"] }

ElementInputs == {NoteC4, RestHalf, BarlineEl, TimeSigEl} \cup BadElements

\* an element object: the value with the identity of the object
NewObject(element, ref) == [ref |-> ref] @@ element

WrittenPitch == <<"D", "4">>
WrittenTempo == 60

\* an assignment to the pitch of the element object ref is seen wherever
\* that object is referenced: the arrays are copied, the elements are not
WriteElement(element, ref, pitch) ==
  IF "ref" \in DOMAIN element /\ element.ref = ref
  THEN [element EXCEPT !.pitch = pitch]
  ELSE element

WriteFragment(fragment, ref, pitch) ==
  [fragment EXCEPT !.elements = [i \in 1..Len(@) |-> WriteElement(@[i], ref, pitch)]]

WriteThrough(f, ref, pitch) ==
  [f EXCEPT !.currentFragment = WriteFragment(@, ref, pitch),
            !.history = [i \in 1..Len(@) |->
                           [@[i] EXCEPT !.fragment = WriteFragment(@, ref, pitch)]],
            !.committedFragments = [i \in 1..Len(@) |-> WriteFragment(@[i], ref, pitch)]]

DefaultTimeSignature == [numerator |-> 4, denominator |-> 4]
DefaultKeySignature  == [key |-> "C", mode |-> "major"]
DefaultTempo == 120

TimeSignatureInputs == {[numerator |-> 3, denominator |-> 4]}
KeySignatureInputs  == {[key |-> "G", mode |-> "major"]}
TempoInputs         == {90}
IndexInputs         == {-1, 0, 1, 2}

(***************************************************************************)
(* Key mappings (types/config.ts)                                          *)
(***************************************************************************)
DEFAULT_KEY_MAPPINGS ==
  [durations |-> ("1" :> "whole" @@ "2" :> "half" @@ "4" :> "quarter" @@
                  "8" :> "eighth" @@ "6" :> "sixteenth" @@
                  "3" :> "dotted-quarter" @@ "7" :> "triplet-eighth"),
   pitches |-> ("c" :> "C" @@ "d" :> "D" @@ "e" :> "E" @@ "f" :> "F" @@
                "g" :> "G" @@ "a" :> "A" @@ "b" :> "B"),
   modifiers |-> ("shift" :> "sharp" @@ "alt" :> "flat" @@ "ctrl" :> "chord"),
   controls |-> ("Enter" :> "commit" @@ "Space" :> "rest" @@
                 "Backspace" :> "delete" @@ "Tab" :> "barline" @@
                 "Escape" :> "clear" @@ "ArrowUp" :> "octave-up" @@
                 "ArrowDown" :> "octave-down" @@ "0" :> "octave-reset" @@
                 "." :> "add-dot" @@ "t" :> "toggle-triplet" @@ "r" :> "rest" @@
                 "z" :> "undo" @@ "y" :> "redo"),
   articulations |-> (">" :> "accent" @@ "^" :> "marcato" @@ "~" :> "trill" @@
                      "-" :> "tenuto" @@ "'" :> "staccato"),
   dynamics |-> ("F1" :> "pp" @@ "F2" :> "p" @@ "F3" :> "mp" @@ "F4" :> "mf" @@
                 "F5" :> "f" @@ "F6" :> "ff" @@ "F7" :> "fff" @@ "F8" :> "ffff")]

\* A user mapping in which Enter is not a control key and commit is on F9
CustomKeyMappings ==
  [DEFAULT_KEY_MAPPINGS EXCEPT
     !.controls = ("F9" :> "commit" @@ "Backspace" :> "delete" @@
                   "Escape" :> "clear" @@ "z" :> "undo" @@ "y" :> "redo")]

\* map[key] of a JavaScript object used as a dictionary
Lookup(map, key) == IF key \in DOMAIN map THEN map[key] ELSE "undefined"

UpperToLower ==
  ("A" :> "a" @@ "B" :> "b" @@ "C" :> "c" @@ "D" :> "d" @@ "E" :> "e" @@
   "F" :> "f" @@ "G" :> "g" @@ "Z" :> "z" @@ "Y" :> "y" @@ "T" :> "t" @@
   "R" :> "r" @@ "X" :> "x" @@ "Enter" :> "enter" @@ "Backspace" :> "backspace" @@
   "Tab" :> "tab" @@ "Escape" :> "escape" @@ "ArrowUp" :> "arrowup" @@
   "ArrowDown" :> "arrowdown" @@ "Space" :> "space" @@ "F1" :> "f1" @@
   "F9" :> "f9")

\* String.prototype.toLowerCase on the key names used as inputs
toLowerCase(key) == IF key \in DOMAIN UpperToLower THEN UpperToLower[key] ELSE key

(***************************************************************************)
(* PreviewRenderer (rendering/PreviewRenderer.ts).  adapter is TRUE iff an  *)
(* adapter is installed; calls made to the adapter are recorded in the     *)
(* effects of the handler that makes them.  The methods are operators on   *)
(* the orchestrator state record s (fields pr, renderTimers, lastTimerId,  *)
(* effects).                                                               *)
(***************************************************************************)
PreviewRenderer ==
  [adapter |-> FALSE, isInitialized |-> FALSE, lastRenderedFragment |-> Null,
   highlightedElement |-> -1, updateTimer |-> 0]

AdapterCall(s, call) == [s EXCEPT !.effects = Append(@, call)]

\* render() that schedules the callback without cancelling the pending one
PRrender_KeepsPending(s, fragment) ==
  LET id == s.lastTimerId + 1
  IN IF ~s.pr.adapter \/ ~s.pr.isInitialized THEN s
     ELSE [s EXCEPT !.renderTimers = @ \cup {[id |-> id, fragment |-> fragment]},
                    !.pr.updateTimer = id,
                    !.lastTimerId = id]

PRrender(s, fragment) ==
  LET id == s.lastTimerId + 1
  IN IF ~s.pr.adapter \/ ~s.pr.isInitialized THEN s
     ELSE [s EXCEPT !.renderTimers = {t \in @ : t.id # s.pr.updateTimer}
                                       \cup {[id |-> id, fragment |-> fragment]},
                    !.pr.updateTimer = id,
                    !.lastTimerId = id]

\* the debounced callback; a missing adapter makes adapter.render throw into the catch
performRender(s, fragment) ==
  LET rendered == AdapterCall([s EXCEPT !.pr.lastRenderedFragment = fragment],
                              [to |-> "adapter", type |-> "render", fragment |-> fragment])
  IN IF ~s.pr.adapter
     THEN AdapterCall(s, [to |-> "container", type |-> "showError"])
     ELSE IF s.pr.highlightedElement >= 0
     THEN AdapterCall(rendered, [to |-> "adapter", type |-> "highlight",
                                 index |-> s.pr.highlightedElement])
     ELSE rendered

PRhighlight(s, elementIndex) ==
  IF ~s.pr.adapter THEN s
  ELSE AdapterCall([s EXCEPT !.pr.highlightedElement = elementIndex],
                   [to |-> "adapter", type |-> "highlight", index |-> elementIndex])

PRclear(s) ==
  IF ~s.pr.adapter THEN s
  ELSE [AdapterCall(s, [to |-> "adapter", type |-> "clear"])
          EXCEPT !.pr.lastRenderedFragment = Null, !.pr.highlightedElement = -1]

PRdestroy(s) ==
  LET untimed   == IF s.pr.updateTimer # 0
                   THEN [s EXCEPT !.renderTimers = {t \in @ : t.id # s.pr.updateTimer}]
                   ELSE s
      unadapted == IF s.pr.adapter
                   THEN [AdapterCall(untimed, [to |-> "adapter", type |-> "destroy"])
                           EXCEPT !.pr.adapter = FALSE]
                   ELSE untimed
  IN [unadapted EXCEPT !.pr.isInitialized = FALSE]

setAdapter(s) ==
  LET replaced  == IF s.pr.adapter
                   THEN AdapterCall(s, [to |-> "adapter", type |-> "destroy"])
                   ELSE s
      installed == [AdapterCall(replaced, [to |-> "adapter", type |-> "initialize"])
                      EXCEPT !.pr.adapter = TRUE, !.pr.isInitialized = TRUE]
  IN IF s.pr.lastRenderedFragment # Null
     THEN PRrender(installed, s.pr.lastRenderedFragment)
     ELSE installed

(***************************************************************************)
(* ShortcutEngine (core/ShortcutEngine.ts).  Each method is an operator    *)
(* from the engine's fields to [eng |-> the fields after, out |-> the      *)
(* ProcessedInput returned]; [type |-> "null"] stands for a null return.   *)
(***************************************************************************)
ChordModeTimeout == 2   \* behavior.chordModeTimeout, in ticks of 1000 ms

StartTime == ChordModeTimeout + 1   \* Date.now() at construction; lastNoteTime starts at 0

ShortcutEngine ==
  [currentDuration |-> "quarter", currentOctave |-> 4, isDotted |-> FALSE,
   isTriplet |-> FALSE, chordNotes |-> <<>>, lastNoteTime |-> 0]

Invalid(error) == [type |-> "invalid", error |-> error]

Key(key, shiftKey, altKey, ctrlKey) ==
  [key |-> key, shiftKey |-> shiftKey, altKey |-> altKey, ctrlKey |-> ctrlKey]

getDurationWithModifiers(e) ==
  IF e.isDotted THEN Dotted(e.currentDuration, 1) ELSE Plain(e.currentDuration)

createNote(e, pitch, accidental) ==
  LET duration == getDurationWithModifiers(e)
  IN [eng |-> e,
      out |-> [type |-> "note",
               data |-> IF e.isTriplet
                        THEN [type |-> "note", pitch |-> pitch, duration |-> duration,
                              accidental |-> accidental, tuplet |-> "triplet"]
                        ELSE [type |-> "note", pitch |-> pitch, duration |-> duration,
                              accidental |-> accidental]]]

createRest(e) ==
  [eng |-> e,
   out |-> [type |-> "rest",
            data |-> [type |-> "rest", duration |-> getDurationWithModifiers(e)]]]

createBarline(e) ==
  [eng |-> e,
   out |-> [type |-> "control",
            data |-> [element |-> [type |-> "barline", style |-> "single"]]]]

completeChord(e) ==
  IF Len(e.chordNotes) = 0
  THEN [eng |-> e, out |-> Invalid("No notes in chord")]
  ELSE [eng |-> [e EXCEPT !.chordNotes = <<>>],
        out |-> [type |-> "chord",
                 data |-> [type |-> "chord", pitches |-> e.chordNotes,
                           duration |-> getDurationWithModifiers(e)]]]

\* an octave change that clamps to [0,8] instead of rejecting
changeOctave_Clamps(e, delta) ==
  LET newOctave == e.currentOctave + delta
      clamped   == IF newOctave < 0 THEN 0 ELSE IF newOctave > 8 THEN 8 ELSE newOctave
  IN [eng |-> [e EXCEPT !.currentOctave = clamped],
      out |-> [type |-> "modifier", data |-> [octave |-> clamped]]]

changeOctave(e, delta) ==
  LET newOctave == e.currentOctave + delta
  IN IF newOctave >= 0 /\ newOctave <= 8
     THEN [eng |-> [e EXCEPT !.currentOctave = newOctave],
           out |-> [type |-> "modifier", data |-> [octave |-> newOctave]]]
     ELSE [eng |-> e, out |-> Invalid("Octave out of range")]

ControlAction(e, action) ==
  [eng |-> e, out |-> [type |-> "control", data |-> [action |-> action]]]

processControlCommand(e, input, km) ==
  LET control == Lookup(km.controls, input.key)
  IN CASE control = "undefined"      -> [eng |-> e, out |-> Null]
       [] control = "commit"         -> ControlAction(e, "commit")
       [] control = "rest"           -> createRest(e)
       [] control = "delete"         -> ControlAction(e, "delete")
       [] control = "barline"        -> createBarline(e)
       [] control = "clear"          -> ControlAction(e, "clear")
       [] control = "octave-up"      -> changeOctave(e, 1)
       [] control = "octave-down"    -> changeOctave(e, -1)
       [] control = "octave-reset"   ->
            [eng |-> [e EXCEPT !.currentOctave = 4],
             out |-> [type |-> "modifier", data |-> [octave |-> 4]]]
       [] control = "add-dot"        ->
            [eng |-> [e EXCEPT !.isDotted = ~e.isDotted],
             out |-> [type |-> "modifier", data |-> [dotted |-> ~e.isDotted]]]
       [] control = "toggle-triplet" ->
            [eng |-> [e EXCEPT !.isTriplet = ~e.isTriplet],
             out |-> [type |-> "modifier", data |-> [triplet |-> ~e.isTriplet]]]
       [] control = "undo"           ->
            IF input.ctrlKey THEN ControlAction(e, "undo") ELSE [eng |-> e, out |-> Null]
       [] control = "redo"           ->
            IF input.ctrlKey THEN ControlAction(e, "redo") ELSE [eng |-> e, out |-> Null]
       [] OTHER                      -> [eng |-> e, out |-> Null]

processDurationChange(e, input, km) ==
  LET duration == Lookup(km.durations, input.key)
      e2 == IF duration = "dotted-quarter"
            THEN [e EXCEPT !.currentDuration = "quarter", !.isDotted = TRUE,
                           !.isTriplet = FALSE]
            ELSE IF duration = "triplet-eighth"
            THEN [e EXCEPT !.currentDuration = "eighth", !.isTriplet = TRUE,
                           !.isDotted = FALSE]
            ELSE [e EXCEPT !.currentDuration = duration, !.isDotted = FALSE,
                           !.isTriplet = FALSE]
  IN IF duration = "undefined" THEN [eng |-> e, out |-> Null]
     ELSE [eng |-> e2,
           out |-> [type |-> "modifier",
                    data |-> [duration |-> e2.currentDuration, dotted |-> e2.isDotted,
                              triplet |-> e2.isTriplet]]]

processArticulation(e, input, km) ==
  LET articulation == Lookup(km.articulations, input.key)
  IN IF articulation = "undefined" THEN [eng |-> e, out |-> Null]
     ELSE [eng |-> e, out |-> [type |-> "modifier", data |-> [articulation |-> articulation]]]

processDynamic(e, input, km) ==
  LET dynamic == Lookup(km.dynamics, input.key)
  IN IF dynamic = "undefined" THEN [eng |-> e, out |-> Null]
     ELSE [eng |-> e, out |-> [type |-> "modifier", data |-> [dynamic |-> dynamic]]]

AccidentalOf(input) ==
  IF input.shiftKey THEN "sharp" ELSE IF input.altKey THEN "flat" ELSE "null"

processNoteInput(e, input, km, time) ==
  LET noteLetter == Lookup(km.pitches, toLowerCase(input.key))
      accidental == AccidentalOf(input)
      pitch      == formatPitch(noteLetter, accidental, e.currentOctave)
  IN IF noteLetter = "undefined" THEN [eng |-> e, out |-> Null]
     ELSE IF input.ctrlKey
     THEN ControlAction([e EXCEPT !.chordNotes = <<pitch>>, !.lastNoteTime = time],
                        "enter-chord-mode")
     ELSE createNote(e, pitch, accidental)

includes(seq, x) == \E i \in 1..Len(seq) : seq[i] = x

processChordNote(e, input, km, time) ==
  LET noteLetter == Lookup(km.pitches, toLowerCase(input.key))
      pitch      == formatPitch(noteLetter, AccidentalOf(input), e.currentOctave)
      notes      == IF includes(e.chordNotes, pitch) THEN e.chordNotes
                    ELSE Append(e.chordNotes, pitch)
  IN IF input.key = "Enter" THEN completeChord(e)
     ELSE IF noteLetter # "undefined"
     THEN [eng |-> [e EXCEPT !.chordNotes = notes, !.lastNoteTime = time],
           out |-> [type |-> "modifier", data |-> [chordNotes |-> notes]]]
     ELSE [eng |-> e, out |-> Invalid("Invalid chord note input")]

processKeyInput_RejectsStoppedOnly(e, input, inputMode, km, time) ==
  LET controlResult      == processControlCommand(e, input, km)
      durationResult     == processDurationChange(e, input, km)
      articulationResult == processArticulation(e, input, km)
      dynamicResult      == processDynamic(e, input, km)
      noteResult         == processNoteInput(e, input, km, time)
  IN IF inputMode = "STOPPED"
     THEN [eng |-> e, out |-> Invalid("Input not accepted in current mode")]
     ELSE IF controlResult.out.type # "null" THEN controlResult
     ELSE IF inputMode = "CHORD_MODE" /\ ~input.ctrlKey
     THEN processChordNote(e, input, km, time)
     ELSE IF durationResult.out.type # "null" THEN durationResult
     ELSE IF articulationResult.out.type # "null" THEN articulationResult
     ELSE IF dynamicResult.out.type # "null" THEN dynamicResult
     ELSE IF noteResult.out.type # "null" THEN noteResult
     ELSE [eng |-> e, out |-> Invalid("Unrecognized input")]

\* processKeyInput that consults the chord stage before the control mapping
processKeyInput_ChordStageFirst(e, input, inputMode, km, time) ==
  LET controlResult      == processControlCommand(e, input, km)
      durationResult     == processDurationChange(e, input, km)
      articulationResult == processArticulation(e, input, km)
      dynamicResult      == processDynamic(e, input, km)
      noteResult         == processNoteInput(e, input, km, time)
  IN IF inputMode = "STOPPED" \/ inputMode = "ERROR"
     THEN [eng |-> e, out |-> Invalid("Input not accepted in current mode")]
     ELSE IF inputMode = "CHORD_MODE" /\ ~input.ctrlKey
     THEN processChordNote(e, input, km, time)
     ELSE IF controlResult.out.type # "null" THEN controlResult
     ELSE IF durationResult.out.type # "null" THEN durationResult
     ELSE IF articulationResult.out.type # "null" THEN articulationResult
     ELSE IF dynamicResult.out.type # "null" THEN dynamicResult
     ELSE IF noteResult.out.type # "null" THEN noteResult
     ELSE [eng |-> e, out |-> Invalid("Unrecognized input")]

processKeyInput(e, input, inputMode, km, time) ==
  LET controlResult      == processControlCommand(e, input, km)
      durationResult     == processDurationChange(e, input, km)
      articulationResult == processArticulation(e, input, km)
      dynamicResult      == processDynamic(e, input, km)
      noteResult         == processNoteInput(e, input, km, time)
  IN IF inputMode = "STOPPED" \/ inputMode = "ERROR"
     THEN [eng |-> e, out |-> Invalid("Input not accepted in current mode")]
     ELSE IF controlResult.out.type # "null" THEN controlResult
     ELSE IF inputMode = "CHORD_MODE" /\ ~input.ctrlKey
     THEN processChordNote(e, input, km, time)
     ELSE IF durationResult.out.type # "null" THEN durationResult
     ELSE IF articulationResult.out.type # "null" THEN articulationResult
     ELSE IF dynamicResult.out.type # "null" THEN dynamicResult
     ELSE IF noteResult.out.type # "null" THEN noteResult
     ELSE [eng |-> e, out |-> Invalid("Unrecognized input")]

reset(e) ==
  [e EXCEPT !.currentDuration = "quarter", !.currentOctave = 4, !.isDotted = FALSE,
            !.isTriplet = FALSE, !.chordNotes = <<>>]

checkChordModeTimeout(e, timeoutMs, time) ==
  IF Len(e.chordNotes) = 0 THEN FALSE
  ELSE time - e.lastNoteTime > timeoutMs

(***************************************************************************)
(* ConfigurationManager (core/ConfigurationManager.ts).  An object is a    *)
(* record holding the properties that are present; the literal 'default'   *)
(* is DefaultToken.  Each method is an operator from the manager's fields  *)
(* to [cm |-> the fields after, out |-> Returned or Thrown(message)].      *)
(***************************************************************************)
UndoHistorySize == 20   \* DEFAULT_BEHAVIOR_CONFIG.undoHistorySize

DebounceDelay == 50   \* DEFAULT_BEHAVIOR_CONFIG.debounceDelay, in ms

DefaultToken == [literal |-> "default"]

DEFAULT_RENDERING_CONFIG ==
  [previewSize |-> "medium", showKeySignature |-> TRUE, showTimeSignature |-> TRUE,
   autoScroll |-> TRUE, highlightCurrentElement |-> TRUE, theme |-> "light"]

DEFAULT_BEHAVIOR_CONFIG ==
  [autoCommitDelay |-> Null, undoHistorySize |-> UndoHistorySize,
   defaultDuration |-> "quarter", defaultOctave |-> 4,
   chordModeTimeout |-> ChordModeTimeout, errorRecoveryMode |-> "lenient",
   debounceDelay |-> DebounceDelay]

Returned == [type |-> "returns"]

Thrown(error) == [type |-> "throws", error |-> error]

Has(object, property) == property \in DOMAIN object

\* {...defaults, ...partial}: the properties of partial win
Spread(defaults, partial) == partial @@ defaults

mergeWithDefaults(partial) ==
  [keyMappings |-> IF ~Has(partial, "keyMappings") \/ partial.keyMappings = DefaultToken
                   THEN DEFAULT_KEY_MAPPINGS
                   ELSE partial.keyMappings,
   rendering   |-> IF Has(partial, "rendering")
                   THEN Spread(DEFAULT_RENDERING_CONFIG, partial.rendering)
                   ELSE DEFAULT_RENDERING_CONFIG,
   behavior    |-> IF Has(partial, "behavior")
                   THEN Spread(DEFAULT_BEHAVIOR_CONFIG, partial.behavior)
                   ELSE DEFAULT_BEHAVIOR_CONFIG]

\* an object without properties
EmptyObject == [property \in {} |-> Null]

ConfigurationManager(initialConfig) ==
  [config |-> mergeWithDefaults(initialConfig), customKeyMappings |-> EmptyObject]

getKeyMappings(c) ==
  IF c.config.keyMappings = DefaultToken THEN DEFAULT_KEY_MAPPINGS
  ELSE c.config.keyMappings

setKeyMappings(c, mappings) ==
  [cm |-> [c EXCEPT !.config.keyMappings = mappings], out |-> Returned]

saveCustomMapping(c, name, mappings) ==
  [cm |-> [c EXCEPT !.customKeyMappings = (name :> mappings) @@ @], out |-> Returned]

getRenderingConfig(c) == c.config.rendering

updateRenderingConfig(c, updates) ==
  [cm |-> [c EXCEPT !.config.rendering = Spread(@, updates)], out |-> Returned]

getBehaviorConfig(c) == c.config.behavior

updateBehaviorConfig(c, updates) ==
  [cm |-> [c EXCEPT !.config.behavior = Spread(@, updates)], out |-> Returned]

getFullConfig(c) ==
  [keyMappings |-> getKeyMappings(c), rendering |-> c.config.rendering,
   behavior |-> c.config.behavior]

RequiredCategories == <<"durations", "pitches", "modifiers", "controls">>

\* the message of the error validateConfig throws, "ok" when it returns; reading
\* a property of a missing section is a TypeError
validateConfig(config) ==
  LET missing == {i \in 1..Len(RequiredCategories) :
                    ~Has(config.keyMappings, RequiredCategories[i])}
      first   == CHOOSE i \in missing : \A j \in missing : i <= j
  IN IF ~Has(config, "keyMappings") THEN "TypeError"
     ELSE IF config.keyMappings # DefaultToken /\ missing # {}
     THEN "Missing required key mapping category: " \o RequiredCategories[first]
     ELSE IF ~Has(config, "rendering") THEN "TypeError"
     ELSE IF Lookup(config.rendering, "previewSize") \notin {"small", "medium", "large"}
     THEN "Invalid preview size"
     ELSE IF ~Has(config, "behavior") THEN "TypeError"
     ELSE IF Has(config.behavior, "undoHistorySize") /\ config.behavior.undoHistorySize < 1
     THEN "Undo history size must be at least 1"
     ELSE IF /\ Has(config.behavior, "defaultOctave")
             /\ (config.behavior.defaultOctave < 0 \/ config.behavior.defaultOctave > 8)
     THEN "Default octave must be between 0 and 8"
     ELSE "ok"

\* a document is the text of an object, whose parse is that object, or text
\* that JSON.parse rejects
JSONparse(configJson) ==
  IF configJson.wellFormed THEN [type |-> "returns", value |-> configJson.value]
  ELSE Thrown("SyntaxError")

\* importConfig() that installs the parsed document before it validates it
importConfig_AssignsBeforeValidation(c, configJson) ==
  LET parsed == JSONparse(configJson)
      verdict == validateConfig(parsed.value)
  IN IF parsed.type = "throws"
     THEN [cm |-> c, out |-> Thrown("Failed to import configuration: SyntaxError")]
     ELSE IF verdict # "ok"
     THEN [cm |-> [c EXCEPT !.config = parsed.value],
           out |-> Thrown("Failed to import configuration: " \o verdict)]
     ELSE [cm |-> [c EXCEPT !.config = parsed.value], out |-> Returned]

importConfig(c, configJson) ==
  LET parsed == JSONparse(configJson)
      verdict == validateConfig(parsed.value)
  IN IF parsed.type = "throws"
     THEN [cm |-> c, out |-> Thrown("Failed to import configuration: SyntaxError")]
     ELSE IF verdict # "ok"
     THEN [cm |-> c, out |-> Thrown("Failed to import configuration: " \o verdict)]
     ELSE [cm |-> [c EXCEPT !.config = parsed.value], out |-> Returned]

CMreset(c) ==
  [cm |-> [config |-> mergeWithDefaults(EmptyObject), customKeyMappings |-> EmptyObject],
   out |-> Returned]

(***************************************************************************)
(* EventEmitter (core/EventEmitter.ts).  listeners maps an event type to   *)
(* the listeners registered for it, in insertion order and without         *)
(* repetition (a Set); a type without entry is a type with no listener.    *)
(***************************************************************************)
EventTypes == {"noteAdded", "error"}

EventEmitter == [type \in EventTypes |-> <<>>]

\* what a listener does when it is invoked: "good" and "another" return, "bad"
\* throws, "remover" unregisters "another" from the type being emitted
Listeners == {"good", "bad", "another", "remover"}

Range(seq) == {seq[i] : i \in 1..Len(seq)}

Without(seq, listener) == SelectSeq(seq, LAMBDA registered : registered # listener)

on(e, eventType, listener) ==
  [ee |-> IF listener \in Range(e[eventType]) THEN e
          ELSE [e EXCEPT ![eventType] = Append(@, listener)],
   effects |-> <<>>, out |-> Returned]

off(e, eventType, listener) ==
  [ee |-> [e EXCEPT ![eventType] = Without(@, listener)],
   effects |-> <<>>, out |-> Returned]

\* Set.forEach: the next listener visited is the first one of the live set
\* that was not visited yet; a listener's exception is caught and logged
RECURSIVE forEachListener(_, _, _, _)
forEachListener(e, eventType, visited, log) ==
  LET waiting  == SelectSeq(e[eventType], LAMBDA registered : registered \notin visited)
      listener == Head(waiting)
      invoked  == Append(log, [to |-> "listener", type |-> eventType, id |-> listener])
      after    == IF listener = "remover" THEN off(e, eventType, "another").ee ELSE e
  IN IF waiting = <<>> THEN [ee |-> e, effects |-> log, out |-> Returned]
     ELSE forEachListener(after, eventType, visited \cup {listener},
                          IF listener = "bad"
                          THEN Append(invoked, [to |-> "console", type |-> "error"])
                          ELSE invoked)

\* emit() that lets a listener's exception end the delivery and reach the caller
EEemit_PropagatesException(e, eventType) ==
  LET registered == e[eventType]
      thrower    == CHOOSE i \in 1..Len(registered) : registered[i] = "bad"
      delivered  == forEachListener([e EXCEPT ![eventType] = SubSeq(registered, 1, thrower)],
                                    eventType, {}, <<>>)
  IN IF "bad" \in Range(registered)
     THEN [ee |-> e, effects |-> delivered.effects, out |-> Thrown("Handler error")]
     ELSE forEachListener(e, eventType, {}, <<>>)

EEemit(e, eventType) == forEachListener(e, eventType, {}, <<>>)

\* eventType "undefined": the call without argument
removeAllListeners(e, eventType) ==
  [ee |-> IF eventType # "undefined" THEN [e EXCEPT ![eventType] = <<>>]
          ELSE EventEmitter,
   effects |-> <<>>, out |-> Returned]

hasListeners(e, eventType) == Len(e[eventType]) > 0

(***************************************************************************)
(* Direct calls of the FragmentManager methods on a manager constructed    *)
(* with maxHistorySize in 1..MaxHistorySize                                *)
(***************************************************************************)
InitFM ==
  /\ \E m \in 1..MaxHistorySize :
       fm = FragmentManager(m, DefaultTimeSignature, DefaultKeySignature, DefaultTempo)
  /\ eng = ShortcutEngine
  /\ keyMappings = DEFAULT_KEY_MAPPINGS
  /\ mode = "STOPPED"
  /\ keyboardHandler = FALSE
  /\ chordModeTimer = 0
  /\ timers = {}
  /\ lastTimerId = 0
  /\ now = StartTime
  /\ onFragmentCommit = FALSE
  /\ pr = PreviewRenderer
  /\ renderTimers = {}
  /\ rendererInit = "loading"
  /\ cm = ConfigurationManager([keyMappings |-> keyMappings])
  /\ ee = EventEmitter
  /\ pendingSinks = {}
  /\ effects = <<>>
  /\ ret = [op |-> "constructor", value |-> "void", prev |-> "none"]
  /\ calls = 0

OrchestratorUnchanged ==
  UNCHANGED <<eng, keyMappings, mode, keyboardHandler, chordModeTimer, timers,
              lastTimerId, now, onFragmentCommit, pr, renderTimers, rendererInit,
              cm, ee, pendingSinks, effects>>

FMCall(op, r) ==
  /\ calls < MaxCalls
  /\ calls' = calls + 1
  /\ fm' = r.fm
  /\ ret' = [op |-> op, value |-> r.value, prev |-> ret.op]
  /\ OrchestratorUnchanged

\* every call passes a new object: ref is the identity of the element object
CallAddElement ==
  \E element \in ElementInputs :
    FMCall("addElement", addElement(fm, NewObject(element, calls + 1)))

CallDeleteLastElement == FMCall("deleteLastElement", deleteLastElement(fm))

CallDeleteElementAt ==
  \E index \in IndexInputs : FMCall("deleteElementAt", deleteElementAt(fm, index))

CallClear == FMCall("clear", clear(fm))

CallUndo == FMCall("undo", undo(fm))

CallRedo == FMCall("redo", redo(fm))

CallCommit == FMCall("commit", commit(fm))

CallSetTimeSignature ==
  \E ts \in TimeSignatureInputs :
    FMCall("setTimeSignature", setTimeSignature(fm, ts.numerator, ts.denominator))

CallSetKeySignature ==
  \E ks \in KeySignatureInputs :
    FMCall("setKeySignature", setKeySignature(fm, ks.key, ks.mode))

CallSetTempo == \E bpm \in TempoInputs : FMCall("setTempo", setTempo(fm, bpm))

CallGetCurrentFragment ==
  FMCall("getCurrentFragment", [fm |-> fm, value |-> getCurrentFragment(fm)])

CallGetCommittedFragments ==
  FMCall("getCommittedFragments", [fm |-> fm, value |-> getCommittedFragments(fm)])

CallGetLastElement == FMCall("getLastElement", [fm |-> fm, value |-> getLastElement(fm)])

CallGetElementAt ==
  \E index \in IndexInputs :
    FMCall("getElementAt", [fm |-> fm, value |-> getElementAt(fm, index)])

\* the element objects the value returned by the last call gives access to
ReturnedElements ==
  CASE ret.op \in {"getLastElement", "getElementAt"} -> {ret.value}
    [] ret.op \in {"getCurrentFragment", "commit"} ->
         {ret.value.elements[i] : i \in 1..Len(ret.value.elements)}
    [] ret.op = "getCommittedFragments" ->
         UNION {{ret.value[j].elements[i] : i \in 1..Len(ret.value[j].elements)} :
                j \in 1..Len(ret.value)}
    [] OTHER -> {}

\* the caller assigns to the pitch of a note it reached through the returned value
CallerWritesElement ==
  \E element \in ReturnedElements :
    /\ element.type = "note"
    /\ FMCall("writeElement",
              [fm |-> WriteThrough(fm, element.ref, WrittenPitch), value |-> "void"])

\* the caller assigns to the tempo of a fragment object it was returned: the
\* object returned by getCurrentFragment() is a new one, the ones returned by
\* commit() and in the array of getCommittedFragments() are the stored ones
CallerWritesFragment ==
  \/ /\ ret.op = "getCurrentFragment"
     /\ FMCall("writeFragment", [fm |-> fm, value |-> "void"])
  \/ /\ ret.op = "commit"
     /\ FMCall("writeFragment",
               [fm |-> [fm EXCEPT !.committedFragments[Len(fm.committedFragments)].tempo
                                    = WrittenTempo],
                value |-> "void"])
  \/ /\ ret.op = "getCommittedFragments"
     /\ \E j \in 1..Len(ret.value) :
          FMCall("writeFragment",
                 [fm |-> [fm EXCEPT !.committedFragments[j].tempo = WrittenTempo],
                  value |-> "void"])

NextFM ==
  \/ CallAddElement
  \/ CallDeleteLastElement
  \/ CallDeleteElementAt
  \/ CallClear
  \/ CallUndo
  \/ CallRedo
  \/ CallCommit
  \/ CallSetTimeSignature
  \/ CallSetKeySignature
  \/ CallSetTempo
  \/ CallGetCurrentFragment
  \/ CallGetCommittedFragments
  \/ CallGetLastElement
  \/ CallGetElementAt
  \/ CallerWritesElement
  \/ CallerWritesFragment

SpecFM == InitFM /\ [][NextFM]_vars

(***************************************************************************)
(* NotationCapture (core/NotationCapture.ts).  A handler is an operator on *)
(* the record s of the orchestrator's mutable state; s.effects collects,   *)
(* in order, what the handler emits to listeners and the calls it makes to *)
(* the preview renderer and to the commit sink.                            *)
(***************************************************************************)
NCState ==
  [fm |-> fm, eng |-> eng, mode |-> mode, keyboardHandler |-> keyboardHandler,
   chordModeTimer |-> chordModeTimer, timers |-> timers, lastTimerId |-> lastTimerId,
   pr |-> pr, renderTimers |-> renderTimers, rendererInit |-> rendererInit, ee |-> ee,
   pendingSinks |-> pendingSinks, effects |-> <<>>]

emit(s, event) == [s EXCEPT !.effects = Append(@, event)]

\* emitError that puts the orchestrator into ERROR mode
emitError_EntersErrorMode(s, code) ==
  emit([s EXCEPT !.mode = "ERROR"], [to |-> "listeners", type |-> "error", code |-> code])

emitError(s, code) == emit(s, [to |-> "listeners", type |-> "error", code |-> code])

changeMode_ReadsModeAfterAssignment(s, newMode) ==
  emit([s EXCEPT !.mode = newMode],
       [to |-> "listeners", type |-> "modeChanged",
        previousMode |-> newMode, newMode |-> newMode])

changeMode(s, newMode) ==
  emit([s EXCEPT !.mode = newMode],
       [to |-> "listeners", type |-> "modeChanged",
        previousMode |-> s.mode, newMode |-> newMode])

updatePreview(s) ==
  LET fragment == s.fm.currentFragment
  IN emit(PRrender(s, fragment),
          [to |-> "listeners", type |-> "previewUpdated", fragment |-> fragment])

highlightElement(s, index) == PRhighlight(s, index)

clearChordMode(s) ==
  LET cleared == IF s.chordModeTimer # 0
                 THEN [s EXCEPT !.timers = {t \in s.timers : t.id # s.chordModeTimer},
                                !.chordModeTimer = 0]
                 ELSE s
  IN [cleared EXCEPT !.eng = reset(s.eng)]

startChordModeTimer(s) ==
  LET id == s.lastTimerId + 1
  IN [s EXCEPT !.lastTimerId = id,
               !.chordModeTimer = id,
               !.timers = @ \cup {[id |-> id, due |-> now + ChordModeTimeout]}]

enterChordMode(s) == startChordModeTimer(changeMode(s, "CHORD_MODE"))

exitChordMode(s) == changeMode(clearChordMode(s), "CAPTURE")

start(s) ==
  IF s.mode # "STOPPED" THEN s
  ELSE updatePreview([changeMode(s, "CAPTURE") EXCEPT !.keyboardHandler = TRUE])

stop(s) ==
  IF s.mode = "STOPPED" THEN s
  ELSE PRclear(clearChordMode([changeMode(s, "STOPPED") EXCEPT !.keyboardHandler = FALSE]))

destroy(s) ==
  [emit(PRdestroy(stop(s)), [to |-> "listeners", type |-> "removeAllListeners"])
     EXCEPT !.ee = removeAllListeners(@, "undefined").ee]

\* initializeRenderer() after its dynamic import has settled
initializeRenderer(s, loaded) ==
  IF loaded THEN [setAdapter(s) EXCEPT !.rendererInit = "done"]
  ELSE [emitError(s, "RENDERER_INIT_FAILED") EXCEPT !.rendererInit = "failed"]

pause(s) ==
  IF s.mode # "CAPTURE" /\ s.mode # "CHORD_MODE" THEN s
  ELSE clearChordMode(changeMode(s, "PAUSED"))

resume(s) ==
  IF s.mode # "PAUSED" THEN s
  ELSE changeMode(s, "CAPTURE")

NCclear(s) ==
  emit(updatePreview([s EXCEPT !.fm = clear(s.fm).fm, !.eng = reset(s.eng)]),
       [to |-> "listeners", type |-> "fragmentCleared"])

\* commit() that calls the sink before it emits fragmentCommitted
NCcommit_SinkFirst(s, sink) ==
  LET r         == commit(s.fm)
      called    == emit([s EXCEPT !.fm = r.fm],
                        [to |-> "onFragmentCommit", type |-> "call",
                         fragment |-> r.value, outcome |-> sink])
      committed == emit(IF onFragmentCommit THEN called ELSE [s EXCEPT !.fm = r.fm],
                        [to |-> "listeners", type |-> "fragmentCommitted",
                         fragment |-> r.value])
  IN IF isEmpty(s.fm) THEN emitError(s, "EMPTY_FRAGMENT")
     ELSE IF ~onFragmentCommit THEN updatePreview(committed)
     ELSE IF sink = "throws"
     THEN updatePreview(emitError(committed, "COMMIT_HANDLER_ERROR"))
     ELSE [committed EXCEPT !.pendingSinks = @ \cup {Len(r.fm.committedFragments)}]

\* commit() that asks the FragmentManager to commit without the isEmpty() check
NCcommit_NoEmptyCheck(s, sink) ==
  LET r         == commit(s.fm)
      committed == emit([s EXCEPT !.fm = r.fm],
                        [to |-> "listeners", type |-> "fragmentCommitted",
                         fragment |-> r.value])
      called    == emit(committed,
                        [to |-> "onFragmentCommit", type |-> "call",
                         fragment |-> r.value, outcome |-> sink])
  IN IF ~onFragmentCommit THEN updatePreview(committed)
     ELSE IF sink = "throws"
     THEN updatePreview(emitError(called, "COMMIT_HANDLER_ERROR"))
     ELSE [called EXCEPT !.pendingSinks = @ \cup {Len(r.fm.committedFragments)}]

\* sink = "throws": the sink throws synchronously; sink = "pending": it returns and
\* the await suspends commit() until SinkSettles
NCcommit(s, sink) ==
  LET r         == commit(s.fm)
      committed == emit([s EXCEPT !.fm = r.fm],
                        [to |-> "listeners", type |-> "fragmentCommitted",
                         fragment |-> r.value])
      called    == emit(committed,
                        [to |-> "onFragmentCommit", type |-> "call",
                         fragment |-> r.value, outcome |-> sink])
  IN IF isEmpty(s.fm) THEN emitError(s, "EMPTY_FRAGMENT")
     ELSE IF ~onFragmentCommit THEN updatePreview(committed)
     ELSE IF sink = "throws"
     THEN updatePreview(emitError(called, "COMMIT_HANDLER_ERROR"))
     ELSE [called EXCEPT !.pendingSinks = @ \cup {Len(r.fm.committedFragments)}]

\* a continuation that takes the newest committed fragment back when the sink rejects
CommitContinuation_RollsBack(s, outcome) ==
  updatePreview(
    IF outcome = "rejected"
    THEN emitError([s EXCEPT !.fm.committedFragments = SubSeq(@, 1, Len(@) - 1)],
                   "COMMIT_HANDLER_ERROR")
    ELSE s)

\* the rest of commit() after the await: outcome is "resolved" or "rejected"
CommitContinuation(s, outcome) ==
  updatePreview(IF outcome = "rejected" THEN emitError(s, "COMMIT_HANDLER_ERROR") ELSE s)

NCundo(s) ==
  LET r == undo(s.fm)
  IN IF r.value THEN updatePreview([s EXCEPT !.fm = r.fm]) ELSE s

NCredo(s) ==
  LET r == redo(s.fm)
  IN IF r.value THEN updatePreview([s EXCEPT !.fm = r.fm]) ELSE s

addNote(s, note) ==
  LET r     == addElement(s.fm, note)
      index == getElementCount(r.fm) - 1
  IN IF r.value.success
     THEN highlightElement(
            updatePreview(
              emit([s EXCEPT !.fm = r.fm],
                   [to |-> "listeners", type |-> "noteAdded", note |-> note,
                    index |-> index])),
            index)
     ELSE emitError(s, "ADD_NOTE_FAILED")

addRest(s, rest) ==
  LET r == addElement(s.fm, rest)
  IN IF r.value.success THEN updatePreview([s EXCEPT !.fm = r.fm])
     ELSE emitError(s, "ADD_REST_FAILED")

addChord(s, chord) ==
  LET r == addElement(s.fm, chord)
  IN IF r.value.success THEN exitChordMode(updatePreview([s EXCEPT !.fm = r.fm]))
     ELSE emitError(s, "ADD_CHORD_FAILED")

NCaddElement(s, element) ==
  LET r == addElement(s.fm, element)
  IN IF r.value.success THEN updatePreview([s EXCEPT !.fm = r.fm])
     ELSE emitError(s, "ADD_ELEMENT_FAILED")

NCdeleteLastElement(s) ==
  LET r == deleteLastElement(s.fm)
  IN IF r.value.type # "null"
     THEN updatePreview(
            emit([s EXCEPT !.fm = r.fm],
                 [to |-> "listeners", type |-> "elementDeleted", element |-> r.value,
                  index |-> getElementCount(r.fm)]))
     ELSE s

handleControlAction(s, data, sink) ==
  IF "action" \in DOMAIN data
  THEN CASE data.action = "commit"           -> NCcommit(s, sink)
         [] data.action = "delete"           -> NCdeleteLastElement(s)
         [] data.action = "clear"            -> NCclear(s)
         [] data.action = "undo"             -> NCundo(s)
         [] data.action = "redo"             -> NCredo(s)
         [] data.action = "enter-chord-mode" -> enterChordMode(s)
         [] OTHER                            -> s
  ELSE IF "element" \in DOMAIN data THEN NCaddElement(s, data.element)
  ELSE s

handleProcessedInput(s, processed, sink) ==
  CASE processed.type = "note"     -> addNote(s, processed.data)
    [] processed.type = "rest"     -> addRest(s, processed.data)
    [] processed.type = "chord"    -> addChord(s, processed.data)
    [] processed.type = "control"  -> handleControlAction(s, processed.data, sink)
    [] processed.type = "modifier" ->
         updatePreview(emit(s, [to |-> "listeners", type |-> "modifierChanged",
                                modifier |-> processed.data]))
    [] processed.type = "invalid"  -> emitError(s, "INVALID_INPUT")

\* a listener that drops key events while a commit sink call has not settled
keyboardListener_BlockedWhilePending(s, input, inTextField, sink) ==
  LET r == processKeyInput(s.eng, input, s.mode, keyMappings, now)
  IN IF inTextField \/ s.pendingSinks # {} THEN s
     ELSE IF r.out.type # "invalid"
     THEN handleProcessedInput([s EXCEPT !.eng = r.eng], r.out, sink)
     ELSE [s EXCEPT !.eng = r.eng]

\* the keydown listener installed by attachKeyboardListener
keyboardListener(s, input, inTextField, sink) ==
  LET r == processKeyInput(s.eng, input, s.mode, keyMappings, now)
  IN IF inTextField THEN s
     ELSE IF r.out.type # "invalid"
     THEN handleProcessedInput([s EXCEPT !.eng = r.eng], r.out, sink)
     ELSE [s EXCEPT !.eng = r.eng]

\* the callback passed to setTimeout by startChordModeTimer
chordTimerCallback(s, sink) ==
  LET r == processKeyInput(s.eng, Key("Enter", FALSE, FALSE, FALSE), s.mode,
                           keyMappings, now)
  IN IF checkChordModeTimeout(s.eng, ChordModeTimeout, now)
     THEN handleProcessedInput([s EXCEPT !.eng = r.eng], r.out, sink)
     ELSE s

(***************************************************************************)
(* The orchestrator as a state machine: public methods, key events, timer  *)
(* callbacks, clock ticks and sink results, one at a time.                 *)
(***************************************************************************)
KeyInputs ==
  { Key("c", FALSE, FALSE, FALSE), Key("c", FALSE, FALSE, TRUE),
    Key("e", FALSE, FALSE, FALSE), Key("g", FALSE, FALSE, FALSE),
    Key("Enter", FALSE, FALSE, FALSE),
    Key(".", FALSE, FALSE, FALSE), Key("Backspace", FALSE, FALSE, FALSE),
    Key("x", FALSE, FALSE, FALSE), Key(" ", FALSE, FALSE, FALSE) }

SinkBehaviours == {"throws", "pending"}

TickInputs == 1..(ChordModeTimeout + 1)

Init ==
  /\ fm = FragmentManager(UndoHistorySize, DefaultTimeSignature, DefaultKeySignature,
                          DefaultTempo)
  /\ eng = ShortcutEngine
  /\ keyMappings \in {DEFAULT_KEY_MAPPINGS, CustomKeyMappings}
  /\ mode = "STOPPED"
  /\ keyboardHandler = FALSE
  /\ chordModeTimer = 0
  /\ timers = {}
  /\ lastTimerId = 0
  /\ now = StartTime
  /\ onFragmentCommit \in BOOLEAN
  /\ pr = PreviewRenderer
  /\ renderTimers = {}
  /\ rendererInit = "loading"
  /\ cm = ConfigurationManager([keyMappings |-> keyMappings])
  /\ ee = EventEmitter
  /\ pendingSinks = {}
  /\ effects = <<>>
  /\ ret = [op |-> "constructor", value |-> "void", prev |-> "none"]
  /\ calls = 0

Handle(op, value, s) ==
  /\ calls < MaxEvents
  /\ calls' = calls + 1
  /\ fm' = s.fm
  /\ eng' = s.eng
  /\ mode' = s.mode
  /\ keyboardHandler' = s.keyboardHandler
  /\ chordModeTimer' = s.chordModeTimer
  /\ timers' = s.timers
  /\ lastTimerId' = s.lastTimerId
  /\ pr' = s.pr
  /\ renderTimers' = s.renderTimers
  /\ rendererInit' = s.rendererInit
  /\ ee' = s.ee
  /\ pendingSinks' = s.pendingSinks
  /\ effects' = s.effects
  /\ ret' = [op |-> op, value |-> value, prev |-> ret.op]
  /\ UNCHANGED <<keyMappings, now, onFragmentCommit, cm>>

Start == Handle("start", "void", start(NCState))

Stop == Handle("stop", "void", stop(NCState))

Destroy == Handle("destroy", "void", destroy(NCState))

\* the dynamic import of the adapter module resolves or rejects, once
RendererLoads ==
  /\ rendererInit = "loading"
  /\ \E loaded \in BOOLEAN :
       Handle("initializeRenderer", "void", initializeRenderer(NCState, loaded))

\* a pending debounced render runs (the debounce delay is below one clock tick)
RenderTimerFires ==
  \E t \in renderTimers :
    Handle("renderTimer", "void",
           performRender([NCState EXCEPT !.renderTimers = @ \ {t}], t.fragment))

Pause == Handle("pause", "void", pause(NCState))

Resume == Handle("resume", "void", resume(NCState))

Clear == Handle("clear", "void", NCclear(NCState))

Commit == \E sink \in SinkBehaviours : Handle("commit", "void", NCcommit(NCState, sink))

Undo == Handle("undo", "void", NCundo(NCState))

Redo == Handle("redo", "void", NCredo(NCState))

\* a keydown event is delivered to the listener only while it is attached
KeyDown ==
  /\ keyboardHandler
  /\ \E input \in KeyInputs, inTextField \in BOOLEAN, sink \in SinkBehaviours :
       Handle("keydown",
              IF inTextField THEN "none"
              ELSE processKeyInput(eng, input, mode, keyMappings, now).out.type,
              keyboardListener(NCState, input, inTextField, sink))

\* a chord timer that is due runs its callback
ChordTimerFires ==
  \E t \in timers, sink \in SinkBehaviours :
    /\ t.due <= now
    /\ Handle("chordTimer", "void",
              chordTimerCallback([NCState EXCEPT !.timers = @ \ {t}], sink))

\* the sink call of a committed fragment resolves or rejects
SinkSettles ==
  \E i \in pendingSinks, outcome \in {"resolved", "rejected"} :
    Handle("sinkSettled", outcome,
           CommitContinuation([NCState EXCEPT !.pendingSinks = @ \ {i}], outcome))

\* time passes; only the chord timers and lastNoteTime read the clock
Tick ==
  /\ timers # {}
  /\ calls < MaxEvents
  /\ \E d \in TickInputs : now' = now + d
  /\ calls' = calls + 1
  /\ ret' = [op |-> "tick", value |-> "void", prev |-> ret.op]
  /\ effects' = <<>>
  /\ UNCHANGED <<fm, eng, keyMappings, mode, keyboardHandler, chordModeTimer, timers,
                 lastTimerId, onFragmentCommit, pr, renderTimers, rendererInit,
                 cm, ee, pendingSinks>>

Next ==
  \/ Start
  \/ Stop
  \/ Destroy
  \/ RendererLoads
  \/ RenderTimerFires
  \/ Pause
  \/ Resume
  \/ Clear
  \/ Commit
  \/ Undo
  \/ Redo
  \/ KeyDown
  \/ ChordTimerFires
  \/ SinkSettles
  \/ Tick

Spec == Init /\ [][Next]_vars

(***************************************************************************)
(* Properties of the FragmentManager, checked under SpecFM                 *)
(***************************************************************************)
IsCall == calls' = calls + 1

\* the call that has just returned changed the document and wrote a history entry
SuccessfulMutation(r) ==
  \/ r.op = "addElement" /\ r.value.success
  \/ r.op \in {"deleteLastElement", "deleteElementAt"} /\ r.value.type # "null"
  \/ r.op \in {"clear", "setTimeSignature", "setKeySignature", "setTempo"}

Last(seq) == seq[Len(seq)]

\* C1: addElement either appends one element that passes validation and the
\* placement rule and returns success=true, or returns success=false and
\* leaves the working fragment, the history entries and the cursor (and so
\* everything undo and redo can reach) exactly as they were.
C1_RejectedAddLeavesNoTrace ==
  [][(IsCall /\ ret'.op = "addElement") =>
       IF ret'.value.success
       THEN LET old   == fm.currentFragment.elements
                added == Last(fm'.currentFragment.elements)
            IN /\ fm'.currentFragment.elements = Append(old, added)
               /\ Len(validateMusicalElement(added)) = 0
               /\ canAddElementToFragment(added, old).valid
       ELSE /\ fm' = fm
            /\ undo(fm').fm.history = fm.history
            /\ redo(fm').fm.history = fm.history]_vars

\* a rejected addElement has returned on a non-empty fragment that has history to undo
C1_Witness ==
  /\ ret.op = "addElement" /\ ~ret.value.success
  /\ Len(fm.currentFragment.elements) > 0
  /\ canUndo(fm)

\* C2: undo() after a successful mutating call restores the working fragment
\* to what it was before that call, and whenever undo() returns true an
\* immediately following redo() returns true and restores the working
\* fragment to what it was before the undo.
C2_UndoRedoRoundTrip ==
  [][IsCall =>
       /\ SuccessfulMutation(ret') =>
            undo(fm').fm.currentFragment = fm.currentFragment
       /\ (ret'.op = "undo" /\ ret'.value) =>
            /\ redo(fm').value
            /\ redo(fm').fm.currentFragment = fm.currentFragment]_vars

\* C3: directly after a successful mutating call, also one that follows an
\* undo, canRedo() is false and redo() returns false and changes nothing.
C3_MutationDiscardsRedo ==
  [][(IsCall /\ SuccessfulMutation(ret')) =>
       /\ ~canRedo(fm')
       /\ redo(fm').value = FALSE
       /\ redo(fm').fm = fm'
       /\ fm'.historyIndex <= fm.historyIndex + 1
       /\ Len(fm'.history) <= fm.historyIndex + 2]_vars

\* a successful mutating call has returned directly after an undo that had left a redo entry
C3_Witness ==
  /\ ret.prev = "undo"
  /\ SuccessfulMutation(ret)
  /\ Len(fm.history) = 2
  /\ fm.maxHistorySize = 3
  /\ calls = 3

HistoryValid ==
  fm.maxHistorySize >= 1 =>
    /\ Len(fm.history) >= 1
    /\ Len(fm.history) <= fm.maxHistorySize
    /\ fm.historyIndex >= 0
    /\ fm.historyIndex < Len(fm.history)
    /\ fm.history[fm.historyIndex + 1].fragment = fm.currentFragment

\* a mutation made with a full history and the cursor at its end drops the oldest entry
EvictsOldest ==
  (/\ IsCall
   /\ SuccessfulMutation(ret')
   /\ Len(fm.history) = fm.maxHistorySize
   /\ fm.historyIndex = Len(fm.history) - 1)
  => /\ Len(fm'.history) = fm.maxHistorySize
     /\ SubSeq(fm'.history, 1, Len(fm'.history) - 1) = Tail(fm.history)
     /\ fm'.historyIndex = fm.maxHistorySize - 1

\* C4: with maxHistorySize >= 1 the history always holds between 1 and
\* maxHistorySize entries, 0 <= cursor < history length, the entry under the
\* cursor equals the working fragment, and exceeding the bound evicts the
\* oldest entry.
C4_HistoryBounded == []HistoryValid /\ [][EvictsOldest]_vars

\* the oldest entry has been evicted from a history of more than one entry, then undo was called
C4_Witness ==
  /\ fm.maxHistorySize = 3
  /\ Len(fm.history) = 3
  /\ calls = 4
  /\ ret.op = "undo" /\ ret.value
  /\ fm.history[1].action # "clear"

\* C5: commit() on a non-empty working fragment appends exactly one fragment
\* with the pre-commit elements to the committed list, leaves an empty working
\* fragment with the same time signature, key signature and tempo, and resets
\* the history to the single entry of that empty fragment, so that undo() and
\* redo() return false.
C5_CommitArchivesAndResets ==
  [][(IsCall /\ ret'.op = "commit" /\ ~isEmpty(fm)) =>
       /\ Len(fm'.committedFragments) = Len(fm.committedFragments) + 1
       /\ SubSeq(fm'.committedFragments, 1, Len(fm.committedFragments))
            = fm.committedFragments
       /\ Last(fm'.committedFragments).elements = fm.currentFragment.elements
       /\ ret'.value.elements = fm.currentFragment.elements
       /\ fm'.currentFragment.elements = <<>>
       /\ fm'.currentFragment.timeSignature = fm.currentFragment.timeSignature
       /\ fm'.currentFragment.keySignature = fm.currentFragment.keySignature
       /\ fm'.currentFragment.tempo = fm.currentFragment.tempo
       /\ Len(fm'.history) = 1
       /\ fm'.history[1].fragment = fm'.currentFragment
       /\ fm'.historyIndex = 0
       /\ undo(fm').value = FALSE
       /\ redo(fm').value = FALSE]_vars

\* a fragment with elements, a changed header and undo history has been committed
C5_Witness ==
  /\ ret.op = "commit"
  /\ Len(fm.committedFragments) = 1
  /\ Len(fm.committedFragments[1].elements) > 0
  /\ fm.currentFragment.tempo # DefaultTempo
  /\ calls >= 3

\* C6: commit() on a working fragment with zero elements leaves the
\* committed list, the working fragment and the history unchanged.
C6_EmptyCommitIsNoOp ==
  [][(IsCall /\ ret'.op = "commit" /\ isEmpty(fm)) => fm' = fm]_vars

(***************************************************************************)
(* Properties of the orchestrator, checked under Spec                      *)
(***************************************************************************)
ErrorEffect(code) == [to |-> "listeners", type |-> "error", code |-> code]

EffectTypes(effs) == {effs[i].type : i \in 1..Len(effs)}

ErrorCodes(effs) == {effs[i].code : i \in {j \in 1..Len(effs) : effs[j].type = "error"}}

SinkCalls(effs) == {i \in 1..Len(effs) : effs[i].to = "onFragmentCommit"}

\* C7: commit() on an empty working fragment, in any mode, emits exactly the
\* EMPTY_FRAGMENT error notification: the sink is not invoked, no
\* fragmentCommitted is emitted, and the committed list, the working fragment,
\* the history and the mode are unchanged.
C7_EmptyCommitRejected ==
  [][(IsCall /\ ret'.op = "commit" /\ isEmpty(fm)) =>
       /\ effects' = <<ErrorEffect("EMPTY_FRAGMENT")>>
       /\ SinkCalls(effects') = {}
       /\ "fragmentCommitted" \notin EffectTypes(effects')
       /\ fm' = fm
       /\ pendingSinks' = pendingSinks
       /\ mode' = mode]_vars

\* commit() has returned in chord mode on an empty fragment, with a sink installed
C7_Witness ==
  /\ ret.op = "commit"
  /\ mode = "CHORD_MODE"
  /\ onFragmentCommit
  /\ isEmpty(fm)
  /\ ErrorCodes(effects) = {"EMPTY_FRAGMENT"}
  /\ fm.committedFragments = <<>>

\* C8: when the sink throws inside commit(), or rejects later, the
\* COMMIT_HANDLER_ERROR notification is emitted, the committed fragment stays
\* in the committed list, the working fragment is not touched by the failure
\* (it is the fresh empty one when the sink throws at once), and the mode, the
\* engine and the key listener are as before, so later events are handled.
C8_SinkFailureKeepsCommit ==
  [][IsCall =>
       /\ (ret'.op = "sinkSettled" /\ ret'.value = "rejected") =>
            /\ "COMMIT_HANDLER_ERROR" \in ErrorCodes(effects')
            /\ fm' = fm
            /\ \A i \in pendingSinks : i <= Len(fm'.committedFragments)
            /\ mode' = mode
            /\ eng' = eng
            /\ keyboardHandler' = keyboardHandler
       /\ \A i \in SinkCalls(effects') :
            effects'[i].outcome = "throws" =>
              /\ effects'[i + 1] = ErrorEffect("COMMIT_HANDLER_ERROR")
              /\ Len(fm'.committedFragments) = Len(fm.committedFragments) + 1
              /\ Last(fm'.committedFragments) = effects'[i].fragment
              /\ Last(fm'.committedFragments).elements = fm.currentFragment.elements
              /\ fm'.currentFragment.elements = <<>>
              /\ mode' = mode
              /\ keyboardHandler' = keyboardHandler]_vars

\* a sink call has rejected after an element was added to the new working fragment
C8_Witness ==
  /\ ret.op = "sinkSettled" /\ ret.value = "rejected"
  /\ Len(fm.committedFragments) = 1
  /\ Len(fm.currentFragment.elements) > 0
  /\ mode = "CAPTURE"
  /\ keyboardHandler

\* C9: the mode changes only by the listed transitions: STOPPED to CAPTURE by
\* start(), CAPTURE or CHORD_MODE to PAUSED by pause(), PAUSED to CAPTURE by
\* resume(), any mode to STOPPED by stop(), CAPTURE to CHORD_MODE on a key
\* event, CHORD_MODE to CAPTURE on a key event or the chord timer.
C9_ModeTransitions ==
  [][mode' # mode =>
       \/ mode = "STOPPED" /\ mode' = "CAPTURE" /\ ret'.op = "start"
       \/ mode \in {"CAPTURE", "CHORD_MODE"} /\ mode' = "PAUSED" /\ ret'.op = "pause"
       \/ mode = "PAUSED" /\ mode' = "CAPTURE" /\ ret'.op = "resume"
       \/ mode' = "STOPPED" /\ ret'.op = "stop"
       \/ mode = "CAPTURE" /\ mode' = "CHORD_MODE" /\ ret'.op = "keydown"
       \/ mode = "CHORD_MODE" /\ mode' = "CAPTURE"
          /\ ret'.op \in {"keydown", "chordTimer"}]_vars

\* C10: while the mode is PAUSED or STOPPED a key event requests no
\* instruction from the engine and changes neither the working fragment, the
\* history, the committed list, the engine's transient state nor the mode.
C10_KeysIgnoredWhenPaused ==
  [][(IsCall /\ ret'.op = "keydown" /\ mode \in {"PAUSED", "STOPPED"}) =>
       /\ ret'.value = "none"
       /\ fm' = fm
       /\ eng' = eng
       /\ mode' = mode]_vars

(***************************************************************************)
(* Chord entry through the orchestrator                                    *)
(***************************************************************************)
EnterKey == Key("Enter", FALSE, FALSE, FALSE)

\* the step is the listener handling this key event outside a text field
KeyStep(input) ==
  \E sink \in SinkBehaviours :
    Handle("keydown", processKeyInput(eng, input, mode, keyMappings, now).out.type,
           keyboardListener(NCState, input, FALSE, sink))

PitchC4 == <<"C", "4">>
PitchE4 == <<"E", "4">>
PitchG4 == <<"G", "4">>

LastElement(f) == Last(f.currentFragment.elements)

\* C11: with the default key mappings, the Enter key event that follows
\* Ctrl+C, E and G in a started capture leaves a Chord of C4, E4 and G4 as the
\* last element of the working fragment and the mode CAPTURE, and commits no
\* fragment.
C11_EnterCompletesChord ==
  [][(/\ keyMappings = DEFAULT_KEY_MAPPINGS
      /\ mode = "CHORD_MODE"
      /\ eng.chordNotes = <<PitchC4, PitchE4, PitchG4>>
      /\ KeyStep(EnterKey)) =>
       /\ ~isEmpty(fm')
       /\ LastElement(fm').type = "chord"
       /\ LastElement(fm').pitches = <<PitchC4, PitchE4, PitchG4>>
       /\ mode' = "CAPTURE"
       /\ fm'.committedFragments = fm.committedFragments]_vars

(***************************************************************************)
(* The chord timer                                                         *)
(***************************************************************************)
ChordPending == mode = "CHORD_MODE" /\ Len(eng.chordNotes) > 0

\* C12: while the orchestrator is in CHORD_MODE with accumulated pitches, the
\* timer that is to force completion is still scheduled, so that without any
\* further key event or API call the chord is completed after the timeout,
\* also when pitches were added after the timer was started.  (Only a timer
\* callback changes the mode when no key event and no API call arrives: a
\* state in CHORD_MODE with pitches and no scheduled callback stays so.)
C12_ChordTimeoutCompletes ==
  ChordPending => \E t \in timers : t.id = chordModeTimer

(***************************************************************************)
(* Direct calls of the ShortcutEngine methods, with any mode argument      *)
(***************************************************************************)
EngineKeyInputs ==
  { Key("c", FALSE, FALSE, TRUE), Key("c", FALSE, FALSE, FALSE),
    Key("e", FALSE, FALSE, FALSE), Key("g", FALSE, FALSE, FALSE),
    Key("Enter", FALSE, FALSE, FALSE), Key("ArrowUp", FALSE, FALSE, FALSE),
    Key("ArrowDown", FALSE, FALSE, FALSE), Key(".", FALSE, FALSE, FALSE),
    Key("x", FALSE, FALSE, FALSE) }

InputModes == {"STOPPED", "CAPTURE", "CHORD_MODE", "PAUSED", "ERROR"}

InitSE ==
  /\ fm = FragmentManager(UndoHistorySize, DefaultTimeSignature, DefaultKeySignature,
                          DefaultTempo)
  /\ eng = ShortcutEngine
  /\ keyMappings \in {DEFAULT_KEY_MAPPINGS, CustomKeyMappings}
  /\ mode = "STOPPED"
  /\ keyboardHandler = FALSE
  /\ chordModeTimer = 0
  /\ timers = {}
  /\ lastTimerId = 0
  /\ now = StartTime
  /\ onFragmentCommit = FALSE
  /\ pr = PreviewRenderer
  /\ renderTimers = {}
  /\ rendererInit = "loading"
  /\ cm = ConfigurationManager([keyMappings |-> keyMappings])
  /\ ee = EventEmitter
  /\ pendingSinks = {}
  /\ effects = <<>>
  /\ ret = [op |-> "constructor", value |-> Null, prev |-> "none"]
  /\ calls = 0

EngCall(op, r) ==
  /\ calls < MaxKeyCalls
  /\ calls' = calls + 1
  /\ eng' = r.eng
  /\ ret' = [op |-> op, value |-> r.out, prev |-> ret.op]
  /\ UNCHANGED <<fm, keyMappings, mode, keyboardHandler, chordModeTimer, timers,
                 lastTimerId, now, onFragmentCommit, pr, renderTimers, rendererInit,
                 cm, ee, pendingSinks, effects>>

ProcessKeyInputStep(input, inputMode) ==
  EngCall("processKeyInput", processKeyInput(eng, input, inputMode, keyMappings, now))

CallProcessKeyInput ==
  \E input \in EngineKeyInputs, inputMode \in InputModes :
    ProcessKeyInputStep(input, inputMode)

CallReset == EngCall("reset", [eng |-> reset(eng), out |-> Null])

NextSE ==
  \/ CallProcessKeyInput
  \/ CallReset

SpecSE == InitSE /\ [][NextSE]_vars

\* C13: with the default key mappings, after Ctrl+C in CAPTURE and E and G
\* in CHORD_MODE, processKeyInput for Enter in CHORD_MODE returns a Chord
\* instruction with the pitches C4, E4, G4 in that order and the current
\* duration, and leaves the chord list empty.
C13_EngineEnterCompletesChord ==
  [][(/\ keyMappings = DEFAULT_KEY_MAPPINGS
      /\ eng.chordNotes = <<PitchC4, PitchE4, PitchG4>>
      /\ ProcessKeyInputStep(EnterKey, "CHORD_MODE")) =>
       /\ ret'.value.type = "chord"
       /\ ret'.value.data.pitches = <<PitchC4, PitchE4, PitchG4>>
       /\ ret'.value.data.duration = getDurationWithModifiers(eng)
       /\ eng'.chordNotes = <<>>]_vars

(***************************************************************************)
(* Teardown                                                                *)
(***************************************************************************)
\* C14: when stop() or destroy() returns, no chord-timeout callback and no
\* debounced render callback is left scheduled, so none can run afterwards,
\* and the key-event listener is detached.
C14_TeardownCancelsTimers ==
  [][(IsCall /\ ret'.op \in {"stop", "destroy"}) =>
       /\ timers' = {}
       /\ renderTimers' = {}
       /\ ~keyboardHandler']_vars

\* C15: at most one chord-mode timeout callback is scheduled at any time,
\* and it is the one whose handle the orchestrator holds: starting a chord
\* timer cancels the one scheduled before.
C15_SingleChordTimer ==
  /\ Cardinality(timers) <= 1
  /\ \A t \in timers : t.id = chordModeTimer

(***************************************************************************)
(* Values handed out by the FragmentManager, checked under SpecFM          *)
(***************************************************************************)
\* C17: an assignment by the caller to a value obtained from
\* getCurrentFragment(), getCommittedFragments(), getLastElement(),
\* getElementAt() or commit(), at any depth, changes neither the working
\* fragment, nor a history entry, nor a committed fragment.
C17_ReturnedValuesAreCopies ==
  [][(IsCall /\ ret'.op \in {"writeElement", "writeFragment"}) => fm' = fm]_vars

(***************************************************************************)
(* The commit sink while it is pending, checked under Spec                 *)
(***************************************************************************)
\* C16: while a sink call has not settled, a key event is still processed
\* and edits only the new working fragment; the fragment passed to the sink
\* is the one stored in the committed list, it has the elements, header and
\* metadata the working fragment had when commit() was called, and it is
\* the same when the sink settles.
C16_EditsDuringPendingSink ==
  [][IsCall =>
       /\ \A i \in pendingSinks :
            /\ i <= Len(fm'.committedFragments)
            /\ fm'.committedFragments[i] = fm.committedFragments[i]
       /\ \A k \in SinkCalls(effects') :
            /\ effects'[k].fragment = Last(fm'.committedFragments)
            /\ effects'[k].fragment = fm.currentFragment
            /\ effects'[k].outcome = "pending" =>
                 Len(fm'.committedFragments) \in pendingSinks'
       /\ (pendingSinks # {} /\ mode = "CAPTURE" /\ KeyStep(Key("c", FALSE, FALSE, FALSE))) =>
            /\ Len(fm'.currentFragment.elements) = Len(fm.currentFragment.elements) + 1
            /\ LastElement(fm').type = "note"
            /\ LastElement(fm').pitch = formatPitch("C", "null", eng.currentOctave)
            /\ fm'.committedFragments = fm.committedFragments]_vars

\* a sink call has resolved after a key event added a note to the new working fragment
C16_Witness ==
  /\ ret.op = "sinkSettled" /\ ret.value = "resolved" /\ ret.prev = "keydown"
  /\ pendingSinks = {}
  /\ Len(fm.committedFragments) = 1
  /\ Len(fm.committedFragments[1].elements) = 1
  /\ Len(fm.currentFragment.elements) = 1

(***************************************************************************)
(* Properties of the ShortcutEngine, checked under SpecSE                  *)
(***************************************************************************)
\* the octave request the key mappings bind to this key: 1, -1, or 0 for none
OctaveDelta(input) ==
  LET control == Lookup(keyMappings.controls, input.key)
  IN IF control = "octave-up" THEN 1 ELSE IF control = "octave-down" THEN -1 ELSE 0

\* an octave-up or octave-down request moves the octave by one inside [0,8]
\* and is rejected, changing nothing, outside
OctaveStep(input, inputMode) ==
  (OctaveDelta(input) # 0 /\ ProcessKeyInputStep(input, inputMode)) =>
    LET newOctave == eng.currentOctave + OctaveDelta(input)
    IN IF newOctave >= 0 /\ newOctave <= 8
       THEN /\ ret'.value = [type |-> "modifier", data |-> [octave |-> newOctave]]
            /\ eng' = [eng EXCEPT !.currentOctave = newOctave]
       ELSE /\ ret'.value = Invalid("Octave out of range")
            /\ eng' = eng

\* C18: the current octave is always an integer in [0,8]; an octave-up or
\* octave-down request that would leave [0,8] returns the rejected
\* instruction 'Octave out of range' and leaves the octave and the rest of
\* the transient state unchanged: four down-steps from octave 4 reach 0 and
\* a fifth is rejected.
C18_OctaveRange ==
  /\ [](eng.currentOctave \in 0..8)
  /\ [][\A input \in EngineKeyInputs, inputMode \in {"CAPTURE", "CHORD_MODE", "PAUSED"} :
          OctaveStep(input, inputMode)]_vars

\* the fifth consecutive octave-down request from octave 4 has been rejected
C18_Witness ==
  /\ calls = 5
  /\ ret.op = "processKeyInput"
  /\ ret.value = Invalid("Octave out of range")
  /\ eng.currentOctave = 0

\* keys of every group of the mappings, keys outside them, both letter cases
RejectedKeys ==
  {input.key : input \in EngineKeyInputs}
    \cup {"C", "d", "1", "4", " ", "Backspace", "Escape", "z", "F9", "Tab"}

RejectedInputs ==
  {Key(key, shiftKey, altKey, ctrlKey) :
     key \in RejectedKeys, shiftKey \in BOOLEAN, altKey \in BOOLEAN, ctrlKey \in BOOLEAN}

ModeRejected == Invalid("Input not accepted in current mode")

\* C19: for every key and modifier combination, processKeyInput called with
\* mode STOPPED or ERROR returns the rejected instruction and leaves the
\* engine's duration, octave, dotted and triplet flags and chord list
\* unchanged, in every state the engine can be in.
C19_RejectedInStoppedAndError ==
  /\ [](\A input \in RejectedInputs, inputMode \in {"STOPPED", "ERROR"} :
          processKeyInput(eng, input, inputMode, keyMappings, now)
            = [eng |-> eng, out |-> ModeRejected])
  /\ [][\A input \in EngineKeyInputs, inputMode \in {"STOPPED", "ERROR"} :
          ProcessKeyInputStep(input, inputMode) =>
            (ret'.value = ModeRejected /\ eng' = eng)]_vars

\* a call rejected for its mode on an engine holding chord pitches, a changed
\* octave and the dotted flag
C19_Witness ==
  /\ ret.op = "processKeyInput"
  /\ ret.value = ModeRejected
  /\ Len(eng.chordNotes) > 0
  /\ eng.currentOctave # 4
  /\ eng.isDotted

\* the modeChanged notifications among the effects of one handler, in order
ModeChanges(effs) == SelectSeq(effs, LAMBDA effect : effect.type = "modeChanged")

\* C20: a handler that changes the orchestrator's mode emits exactly one
\* modeChanged notification; the modeChanged notifications of a handler lead
\* from the mode before it to the mode after it, each newMode being the next
\* previousMode, so that over a run the notifications chain and the newMode
\* of the latest one is getMode().
C20_ModeChangeNotified ==
  [][LET changes == ModeChanges(effects')
     IN /\ mode' # mode => Len(changes) = 1
        /\ changes = <<>> => mode' = mode
        /\ changes # <<>> =>
             /\ changes[1].previousMode = mode
             /\ changes[Len(changes)].newMode = mode'
             /\ \A i \in 1..(Len(changes) - 1) :
                  changes[i].newMode = changes[i + 1].previousMode]_vars

\* the chord timeout has brought the mode from CHORD_MODE back to CAPTURE
C20_Witness ==
  /\ ret.op = "chordTimer"
  /\ mode = "CAPTURE"
  /\ ModeChanges(effects)
       = <<[to |-> "listeners", type |-> "modeChanged",
            previousMode |-> "CHORD_MODE", newMode |-> "CAPTURE"]>>

FragmentCommittedAt(effs) == {i \in 1..Len(effs) : effs[i].type = "fragmentCommitted"}

\* C21: on an orchestrator constructed with a commit sink, commit() on a
\* non-empty fragment emits fragmentCommitted and then invokes the sink
\* exactly once with the committed fragment; no other step invokes the sink,
\* in particular not the one in which the sink's failure is handled, so the
\* sink invocations, the fragmentCommitted notifications and the committed
\* fragments grow together.
C21_CommitFlowOrdering ==
  [][onFragmentCommit =>
       LET sinkCalls == SinkCalls(effects')
           notified  == FragmentCommittedAt(effects')
       IN /\ Cardinality(sinkCalls) = Cardinality(notified)
          /\ Cardinality(sinkCalls)
               = Len(fm'.committedFragments) - Len(fm.committedFragments)
          /\ (IsCall /\ ret'.op = "commit" /\ ~isEmpty(fm)) => Cardinality(sinkCalls) = 1
          /\ (IsCall /\ ret'.op = "sinkSettled") => sinkCalls = {}
          /\ \A k \in sinkCalls :
               /\ notified = {k - 1}
               /\ effects'[k - 1].fragment = effects'[k].fragment
               /\ effects'[k].fragment = Last(fm'.committedFragments)]_vars

\* a second commit() after the sink threw in the first: one sink call for it
C21_Witness ==
  /\ onFragmentCommit
  /\ ret.op = "commit"
  /\ Len(fm.committedFragments) = 2
  /\ Cardinality(SinkCalls(effects)) = 1

PreviewUpdates(effs) == {i \in 1..Len(effs) : effs[i].type = "previewUpdated"}

\* the step renders the working fragment it leaves: a previewUpdated
\* notification carries it and, with an initialized renderer, the pending
\* render timer holds it
PreviewFollows ==
  /\ \E i \in PreviewUpdates(effects') : effects'[i].fragment = fm'.currentFragment
  /\ (pr'.isInitialized /\ pr'.adapter) =>
       \E t \in renderTimers' : t.id = pr'.updateTimer /\ t.fragment = fm'.currentFragment

\* C22: every step of the orchestrator that changes the working fragment
\* (element added or deleted, clear, undo, redo, commit) calls the preview
\* renderer with the working fragment as it is after the step and emits a
\* previewUpdated notification carrying the same snapshot.
C22_PreviewFollowsMutation ==
  [][fm'.currentFragment # fm.currentFragment => PreviewFollows]_vars

\* C23: when stop() returns from a mode other than STOPPED, the working
\* fragment has zero elements.
C23_StopClearsFragment ==
  [][(IsCall /\ ret'.op = "stop" /\ mode # "STOPPED") =>
       (mode' = "STOPPED" /\ isEmpty(fm'))]_vars

\* C24: undo() with the cursor at the first history entry and redo() with
\* the cursor at the last entry return false and change nothing: the working
\* fragment, the history entries, the cursor and the committed list are as
\* before.
C24_UndoRedoAtBoundary ==
  [][/\ (IsCall /\ ret'.op = "undo" /\ ~canUndo(fm)) => (ret'.value = FALSE /\ fm' = fm)
     /\ (IsCall /\ ret'.op = "redo" /\ ~canRedo(fm)) => (ret'.value = FALSE /\ fm' = fm)]_vars

\* undo() refused at the first entry of a history that has later entries,
\* with a working fragment that holds an element
C24_Witness ==
  /\ ret.op = "undo"
  /\ ret.value = FALSE
  /\ fm.historyIndex = 0
  /\ Len(fm.history) >= 2
  /\ ~isEmpty(fm)

AdapterRenders(effs) ==
  {i \in 1..Len(effs) : effs[i].to = "adapter" /\ effs[i].type = "render"}

\* the fragment passed by the last render() call of a handler
LastRenderCall(effs) ==
  effs[CHOOSE i \in PreviewUpdates(effs) : \A j \in PreviewUpdates(effs) : j <= i].fragment

\* C25: at most one render timer is pending and it is the one whose handle
\* the renderer stores; a handler that calls render() on an initialized
\* renderer leaves exactly one pending timer, holding the fragment of its
\* last call, whatever was pending before; the adapter renders only when a
\* timer fires, once, with that timer's fragment; destroy() leaves no timer.
C25_DebouncedRenderLastWins ==
  /\ [](/\ Cardinality(renderTimers) <= 1
        /\ \A t \in renderTimers : t.id = pr.updateTimer)
  /\ [][/\ (pr.adapter /\ pr.isInitialized /\ PreviewUpdates(effects') # {}) =>
             renderTimers' = {[id |-> pr'.updateTimer,
                               fragment |-> LastRenderCall(effects')]}
        /\ (IsCall /\ ret'.op = "renderTimer") =>
             /\ renderTimers' = {}
             /\ Cardinality(AdapterRenders(effects')) = 1
             /\ \A i \in AdapterRenders(effects'), t \in renderTimers :
                  effects'[i].fragment = t.fragment
        /\ (IsCall /\ ret'.op # "renderTimer") => AdapterRenders(effects') = {}
        /\ (IsCall /\ ret'.op = "destroy") => renderTimers' = {}]_vars

\* start() and a note key both called render() before the delay elapsed; the
\* one callback that ran rendered the fragment holding the note
C25_Witness ==
  /\ calls = 4
  /\ ret.op = "renderTimer"
  /\ ret.prev = "keydown"
  /\ renderTimers = {}
  /\ \E i \in AdapterRenders(effects) : Len(effects[i].fragment.elements) = 1

(***************************************************************************)
(* Direct calls of the ConfigurationManager methods                        *)
(***************************************************************************)
WithoutControls ==
  [category \in DOMAIN DEFAULT_KEY_MAPPINGS \ {"controls"} |->
     DEFAULT_KEY_MAPPINGS[category]]

KeyMappingsInputs == {DefaultToken, DEFAULT_KEY_MAPPINGS, CustomKeyMappings}

RenderingInputs ==
  {[DEFAULT_RENDERING_CONFIG EXCEPT !.previewSize = size] : size \in {"small", "large", "huge"}}

BehaviorInputs ==
  {[DEFAULT_BEHAVIOR_CONFIG EXCEPT !.undoHistorySize = size, !.defaultOctave = octave] :
     size \in {0, 1}, octave \in {-1, 0, 8, 9}}

WellFormed(value) == [wellFormed |-> TRUE, value |-> value]

\* text that is not JSON, the text of objects with the three sections, and of
\* objects that lack one
ImportDocuments ==
  {[wellFormed |-> FALSE]}
    \cup {WellFormed([keyMappings |-> k, rendering |-> r, behavior |-> b]) :
            k \in KeyMappingsInputs \cup {WithoutControls},
            r \in RenderingInputs, b \in BehaviorInputs}
    \cup {WellFormed([keyMappings |-> CustomKeyMappings,
                      rendering |-> DEFAULT_RENDERING_CONFIG]),
          WellFormed([rendering |-> DEFAULT_RENDERING_CONFIG,
                      behavior |-> DEFAULT_BEHAVIOR_CONFIG]),
          WellFormed(EmptyObject)}

InitCM ==
  /\ fm = FragmentManager(UndoHistorySize, DefaultTimeSignature, DefaultKeySignature,
                          DefaultTempo)
  /\ eng = ShortcutEngine
  /\ keyMappings \in {DEFAULT_KEY_MAPPINGS, CustomKeyMappings}
  /\ mode = "STOPPED"
  /\ keyboardHandler = FALSE
  /\ chordModeTimer = 0
  /\ timers = {}
  /\ lastTimerId = 0
  /\ now = StartTime
  /\ onFragmentCommit = FALSE
  /\ pr = PreviewRenderer
  /\ renderTimers = {}
  /\ rendererInit = "loading"
  /\ cm = ConfigurationManager([keyMappings |-> keyMappings])
  /\ ee = EventEmitter
  /\ pendingSinks = {}
  /\ effects = <<>>
  /\ ret = [op |-> "constructor", value |-> Returned, prev |-> "none"]
  /\ calls = 0

CMCall(op, r) ==
  /\ calls < MaxConfigCalls
  /\ calls' = calls + 1
  /\ cm' = r.cm
  /\ ret' = [op |-> op, value |-> r.out, prev |-> ret.op]
  /\ UNCHANGED <<fm, eng, keyMappings, mode, keyboardHandler, chordModeTimer, timers,
                 lastTimerId, now, onFragmentCommit, pr, renderTimers, rendererInit,
                 ee, pendingSinks, effects>>

ImportConfigStep(configJson) == CMCall("importConfig", importConfig(cm, configJson))

CallImportConfig == \E configJson \in ImportDocuments : ImportConfigStep(configJson)

CallSetKeyMappings ==
  \E mappings \in KeyMappingsInputs : CMCall("setKeyMappings", setKeyMappings(cm, mappings))

CallUpdateRenderingConfig ==
  \E size \in {"small", "large"} :
    CMCall("updateRenderingConfig", updateRenderingConfig(cm, [previewSize |-> size]))

CallUpdateBehaviorConfig ==
  \E octave \in {3, 5} :
    CMCall("updateBehaviorConfig", updateBehaviorConfig(cm, [defaultOctave |-> octave]))

CallSaveCustomMapping ==
  CMCall("saveCustomMapping", saveCustomMapping(cm, "mine", CustomKeyMappings))

CallCMReset == CMCall("reset", CMreset(cm))

NextCM ==
  \/ CallImportConfig
  \/ CallSetKeyMappings
  \/ CallUpdateRenderingConfig
  \/ CallUpdateBehaviorConfig
  \/ CallSaveCustomMapping
  \/ CallCMReset

SpecCM == InitCM /\ [][NextCM]_vars

\* a document the import has to refuse: not JSON, or an object with the three
\* sections that lacks a required key-mapping category, has a preview size
\* outside small/medium/large, an undo history size below 1 or a default
\* octave outside [0,8]
MustBeRefused(configJson) ==
  \/ ~configJson.wellFormed
  \/ /\ DOMAIN configJson.value = {"keyMappings", "rendering", "behavior"}
     /\ \/ /\ configJson.value.keyMappings # DefaultToken
           /\ \E i \in 1..Len(RequiredCategories) :
                RequiredCategories[i] \notin DOMAIN configJson.value.keyMappings
        \/ configJson.value.rendering.previewSize \notin {"small", "medium", "large"}
        \/ configJson.value.behavior.undoHistorySize < 1
        \/ configJson.value.behavior.defaultOctave \notin 0..8

\* C26: importConfig of a document that is malformed, lacks a required
\* key-mapping category, or has a preview size outside {small, medium,
\* large}, an undo history size below 1 or a default octave outside [0,8]
\* throws and leaves the key mappings, the rendering and the behavior
\* configuration as they were; an import that throws for any reason changes
\* nothing, and one that returns installs the whole document.
C26_ImportIsAtomic ==
  [][\A configJson \in ImportDocuments :
       ImportConfigStep(configJson) =>
         /\ MustBeRefused(configJson) => ret'.value.type = "throws"
         /\ ret'.value.type = "throws" =>
              (cm' = cm /\ getFullConfig(cm') = getFullConfig(cm))
         /\ ret'.value.type = "returns" => cm'.config = configJson.value]_vars

\* an import refused on a manager whose key mappings, preview size and default
\* octave had been changed from the defaults
C26_Witness ==
  /\ ret.op = "importConfig"
  /\ ret.value.type = "throws"
  /\ ret.prev = "importConfig"
  /\ cm.config.keyMappings = CustomKeyMappings
  /\ cm.config.rendering.previewSize = "large"
  /\ cm.config.behavior.defaultOctave = 8

\* C27: a key event in CAPTURE mode for which the engine returns a rejected
\* instruction makes the orchestrator emit an error notification with code
\* INVALID_INPUT.
C27_RejectedInputSurfaced ==
  [][\A input \in KeyInputs :
       (/\ mode = "CAPTURE"
        /\ processKeyInput(eng, input, mode, keyMappings, now).out.type = "invalid"
        /\ KeyStep(input))
         => "INVALID_INPUT" \in ErrorCodes(effects')]_vars

\* C28: a start() that follows destroy() has no effect: the mode stays
\* STOPPED, no modeChanged notification is emitted and no key-event listener
\* is attached.
C28_DestroyIsFinal ==
  [][(ret.op = "destroy" /\ IsCall /\ ret'.op = "start") =>
       /\ mode' = "STOPPED"
       /\ ~keyboardHandler'
       /\ ModeChanges(effects') = <<>>]_vars

\* KeyboardEvent.key of the space bar
SpaceKey == Key(" ", FALSE, FALSE, FALSE)

\* C29: with the default key mappings, a key event for the space bar in
\* CAPTURE mode appends exactly one rest of the current duration to the
\* working fragment.
C29_SpaceInsertsRest ==
  [][(keyMappings = DEFAULT_KEY_MAPPINGS /\ mode = "CAPTURE" /\ KeyStep(SpaceKey)) =>
       /\ getElementCount(fm') = getElementCount(fm) + 1
       /\ LastElement(fm').type = "rest"
       /\ LastElement(fm').duration = getDurationWithModifiers(eng)]_vars

(***************************************************************************)
(* Direct calls of the EventEmitter methods                                *)
(***************************************************************************)
InitEE ==
  /\ fm = FragmentManager(UndoHistorySize, DefaultTimeSignature, DefaultKeySignature,
                          DefaultTempo)
  /\ eng = ShortcutEngine
  /\ keyMappings = DEFAULT_KEY_MAPPINGS
  /\ mode = "STOPPED"
  /\ keyboardHandler = FALSE
  /\ chordModeTimer = 0
  /\ timers = {}
  /\ lastTimerId = 0
  /\ now = StartTime
  /\ onFragmentCommit = FALSE
  /\ pr = PreviewRenderer
  /\ renderTimers = {}
  /\ rendererInit = "loading"
  /\ cm = ConfigurationManager([keyMappings |-> keyMappings])
  /\ ee = EventEmitter
  /\ pendingSinks = {}
  /\ effects = <<>>
  /\ ret = [op |-> "constructor", value |-> Returned, prev |-> "none"]
  /\ calls = 0

EECall(op, r) ==
  /\ calls < MaxEmitterCalls
  /\ calls' = calls + 1
  /\ ee' = r.ee
  /\ effects' = r.effects
  /\ ret' = [op |-> op, value |-> r.out, prev |-> ret.op]
  /\ UNCHANGED <<fm, eng, keyMappings, mode, keyboardHandler, chordModeTimer, timers,
                 lastTimerId, now, onFragmentCommit, pr, renderTimers, rendererInit,
                 cm, pendingSinks>>

\* every listener can be registered for noteAdded, "good" also for error
Registrations ==
  {<<"noteAdded", listener>> : listener \in Listeners} \cup {<<"error", "good">>}

CallOn == \E r \in Registrations : EECall("on", on(ee, r[1], r[2]))

CallOff == \E r \in Registrations : EECall("off", off(ee, r[1], r[2]))

EmitStep(eventType) == EECall("emit", EEemit(ee, eventType))

CallEmit == \E eventType \in EventTypes : EmitStep(eventType)

CallRemoveAllListeners ==
  \E eventType \in EventTypes \cup {"undefined"} :
    EECall("removeAllListeners", removeAllListeners(ee, eventType))

NextEE ==
  \/ CallOn
  \/ CallOff
  \/ CallEmit
  \/ CallRemoveAllListeners

SpecEE == InitEE /\ [][NextEE]_vars

\* the listeners invoked by a handler, in the order of their invocation
Invoked(effs) ==
  LET invocations == SelectSeq(effs, LAMBDA effect : effect.to = "listener")
  IN [i \in 1..Len(invocations) |-> invocations[i].id]

C31_EmitUsesSnapshot ==
  [][\A eventType \in EventTypes :
       EmitStep(eventType) => Invoked(effects') = ee[eventType]]_vars

\* C32: in every state of the FragmentManager the working fragment's
\* metadata.measures is the number of its barline elements and its
\* metadata.totalDuration is calculateFragmentDuration of its elements and
\* its time signature.
C32_MetadataCurrent ==
  /\ fm.currentFragment.metadata.measures = countMeasures(fm.currentFragment.elements)
  /\ fm.currentFragment.metadata.totalDuration
       = calculateFragmentDuration(fm.currentFragment.elements,
                                   fm.currentFragment.timeSignature)

C32_Witness ==
  /\ ret.op = "setTimeSignature"
  /\ fm.currentFragment.metadata.measures >= 1
  /\ \E i \in DOMAIN fm.currentFragment.elements :
       fm.currentFragment.elements[i].type = "note"
  /\ fm.historyIndex >= 1
  /\ fm.currentFragment.metadata.totalDuration
       # fm.history[fm.historyIndex].fragment.metadata.totalDuration

\* the steps that are calls of FragmentManager methods (the other steps of
\* SpecFM are assignments the caller makes to objects it was returned)
FragmentManagerCall == IsCall /\ ret'.op \notin {"writeElement", "writeFragment"}

\* the history after the step holds the entries it held before, unchanged and
\* in order, less the ones the step dropped, and at most one new entry
HistoryEntriesKept ==
  LET kept  == SubSeq(fm.history, 1, fm.historyIndex + 1)
      entry == Last(fm'.history)
  IN \/ fm'.history = fm.history
     \/ ret'.op = "commit" /\ fm'.history = <<entry>>
     \/ fm'.history = Append(kept, entry)
     \/ fm'.history = Tail(Append(kept, entry))

HeaderSetters == {"setTimeSignature", "setKeySignature", "setTempo"}

MaxDispatchCalls == 3

\* key mappings in which the undo key and the triplet key are pitch keys too
OverlappingKeyMappings ==
  [DEFAULT_KEY_MAPPINGS EXCEPT !.pitches = @ @@ ("z" :> "B" @@ "t" :> "D")]

DispatchKeyInputs ==
  { Key("z", FALSE, FALSE, FALSE), Key("z", FALSE, FALSE, TRUE),
    Key("t", FALSE, FALSE, FALSE), Key("Enter", FALSE, FALSE, FALSE),
    Key("c", FALSE, FALSE, FALSE), Key("c", FALSE, FALSE, TRUE),
    Key("8", FALSE, FALSE, FALSE), Key("x", FALSE, FALSE, FALSE) }

DispatchModes == {"CAPTURE", "PAUSED", "CHORD_MODE"}

InitDP ==
  /\ fm = FragmentManager(UndoHistorySize, DefaultTimeSignature, DefaultKeySignature,
                          DefaultTempo)
  /\ eng = ShortcutEngine
  /\ keyMappings \in {DEFAULT_KEY_MAPPINGS, OverlappingKeyMappings}
  /\ mode = "STOPPED"
  /\ keyboardHandler = FALSE
  /\ chordModeTimer = 0
  /\ timers = {}
  /\ lastTimerId = 0
  /\ now = StartTime
  /\ onFragmentCommit = FALSE
  /\ pr = PreviewRenderer
  /\ renderTimers = {}
  /\ rendererInit = "loading"
  /\ cm = ConfigurationManager([keyMappings |-> keyMappings])
  /\ ee = EventEmitter
  /\ pendingSinks = {}
  /\ effects = <<>>
  /\ ret = [op |-> "constructor", value |-> Null, prev |-> "none"]
  /\ calls = 0

DPCall(op, r) ==
  /\ calls < MaxDispatchCalls
  /\ calls' = calls + 1
  /\ eng' = r.eng
  /\ ret' = [op |-> op, value |-> r.out, prev |-> ret.op]
  /\ UNCHANGED <<fm, keyMappings, mode, keyboardHandler, chordModeTimer, timers,
                 lastTimerId, now, onFragmentCommit, pr, renderTimers, rendererInit,
                 cm, ee, pendingSinks, effects>>

DispatchStep(input, inputMode) ==
  DPCall("processKeyInput", processKeyInput(eng, input, inputMode, keyMappings, now))

CallDispatch ==
  \E input \in DispatchKeyInputs, inputMode \in DispatchModes :
    DispatchStep(input, inputMode)

CallDispatchReset == DPCall("reset", [eng |-> reset(eng), out |-> Null])

NextDP ==
  \/ CallDispatch
  \/ CallDispatchReset

SpecDP == InitDP /\ [][NextDP]_vars

\* the control command the key is mapped to, when the engine handles it as one
HandledControl(input) ==
  LET control == Lookup(keyMappings.controls, input.key)
  IN IF control \in {"undo", "redo"} /\ ~input.ctrlKey THEN "undefined" ELSE control

\* what the stages after the control mapping make of the key
LaterStages(input, inputMode) ==
  LET durationResult     == processDurationChange(eng, input, keyMappings)
      articulationResult == processArticulation(eng, input, keyMappings)
      dynamicResult      == processDynamic(eng, input, keyMappings)
      noteResult         == processNoteInput(eng, input, keyMappings, now)
  IN CASE inputMode = "CHORD_MODE" /\ ~input.ctrlKey ->
            processChordNote(eng, input, keyMappings, now)
       [] OTHER ->
            IF durationResult.out.type # "null" THEN durationResult
            ELSE IF articulationResult.out.type # "null" THEN articulationResult
            ELSE IF dynamicResult.out.type # "null" THEN dynamicResult
            ELSE IF noteResult.out.type # "null" THEN noteResult
            ELSE [eng |-> eng, out |-> Invalid("Unrecognized input")]

HeaderElementTypes == {"timeSignature", "keySignature"}

HasNoteOrRest(elements) ==
  \E i \in DOMAIN elements : elements[i].type \in {"note", "rest"}

\* C35: addElement does not add a timeSignature or keySignature element to a
\* working fragment that holds a note or a rest, and in every state no such
\* element of the working fragment stands after a note or a rest.
C35_HeaderPlacement ==
  /\ [](\A i, j \in DOMAIN fm.currentFragment.elements :
          /\ i < j
          /\ fm.currentFragment.elements[i].type \in {"note", "rest"}
          => fm.currentFragment.elements[j].type \notin HeaderElementTypes)
  /\ [][/\ IsCall
        /\ ret'.op = "addElement"
        /\ HasNoteOrRest(fm.currentFragment.elements)
        /\ Len(fm'.currentFragment.elements) > Len(fm.currentFragment.elements)
        => Last(fm'.currentFragment.elements).type \notin HeaderElementTypes]_vars
  /\ [][/\ IsCall
        /\ ret'.op = "addElement"
        /\ ret'.value.success
        => fm'.currentFragment.elements # fm.currentFragment.elements]_vars

\* a time signature was refused after a rest, in a fragment that starts with one
C35_Witness ==
  /\ ret.op = "addElement"
  /\ ~ret.value.success
  /\ ret.value.error = <<"Time and key signatures should be placed before notes">>
  /\ Len(fm.currentFragment.elements) = 2
  /\ fm.currentFragment.elements[1].type = "timeSignature"
  /\ fm.currentFragment.elements[2].type = "rest"

\* the transient state of the engine is the one reset() installs
EngineAtDefaults(e) ==
  /\ e.currentDuration = "quarter"
  /\ e.currentOctave = 4
  /\ ~e.isDotted
  /\ ~e.isTriplet
  /\ e.chordNotes = <<>>

\* C36: a step that takes the mode from CHORD_MODE to CAPTURE, PAUSED or
\* STOPPED leaves the engine's transient state at its defaults and no
\* chord-mode timeout callback scheduled; in every state whose mode is not
\* CHORD_MODE the engine's chord list is empty.
C36_LeavingChordModeResets ==
  /\ [](mode # "CHORD_MODE" => eng.chordNotes = <<>>)
  /\ [][mode = "CHORD_MODE" /\ mode' \in {"CAPTURE", "PAUSED", "STOPPED"}
          => /\ EngineAtDefaults(eng')
             /\ timers' = {}]_vars

\* C37: in every state whose mode is CHORD_MODE the engine's chord list is
\* not empty, also after an Escape, delete, undo or commit key in CHORD_MODE,
\* so that no completion in CHORD_MODE is rejected with 'No notes in chord'.
C37_ChordModeHasPendingChord ==
  mode = "CHORD_MODE" => Len(eng.chordNotes) > 0

\* C38: once destroy() has returned, the completion of the adapter load does
\* not install or initialize an adapter: the step that follows destroy()
\* leaves the preview renderer without adapter and not initialized and makes
\* no call of the adapter.
C38_NoAdapterAfterDestroy ==
  [][ret.op = "destroy" =>
       /\ ~pr'.adapter
       /\ ~pr'.isInitialized
       /\ \A i \in DOMAIN effects' : effects'[i].to # "adapter"]_vars

\* C39: the step in which commit() stores the committed fragment (the handler
\* up to the point where it waits for the commit-sink) makes the render call
\* and emits the previewUpdated notification for the new, empty working
\* fragment, so that both precede every later key event whether or not the
\* sink settles.
C39_PreviewDoesNotWaitForSink ==
  [][Len(fm'.committedFragments) > Len(fm.committedFragments) =>
       /\ isEmpty(fm')
       /\ PreviewFollows]_vars

====
